---------------------------- MODULE Spec2Model ----------------------------
(***************************************************************************)
(* Verification model of the movie-stream catalog acquisition engine:      *)
(*   - the tiered response cache            (src/shared/cache.js 1-252)    *)
(*   - the TMDB proxy and the OMDb lookup   (src/unnamed/part_000/001)     *)
(*   - the critic-score enrichment queue    (src/shared/cache.js 382-929)  *)
(*   - the progressive discovery cursor     (src/shared/cache.js 4287-4740)*)
(* Each component has its own specification over the shared variables; the *)
(* variables of the other components stay at their initial values.         *)
(***************************************************************************)
EXTENDS Integers, Sequences, FiniteSets, TLC

(***************************************************************************)
(* JavaScript values.  Strings are TLA+ strings; every other value is a    *)
(* tagged record, so that values of different types are never compared.    *)
(***************************************************************************)
Str(s) == [t |-> "str", s |-> s]
Num(n) == [t |-> "num", n |-> n]
Null == [t |-> "null"]
Arr(e) == [t |-> "arr", e |-> e]
\* a plain object: its own enumerable entries <<key, value>> in insertion order
Obj(e) == [t |-> "obj", o |-> e]
\* a URLSearchParams: <<name, value>> pairs (strings) in insertion order
Usp(e) == [t |-> "usp", q |-> e]

CharAt(s, i) == SubSeq(s, i, i)

\* printable ASCII in code order, without the double quote (34), the
\* backslash (92) and the backquote (96), which no key of the model contains
AsciiLow == "#$%&'()*+,-./0123456789:;<=>?@ABCDEFGHIJKLMNOPQRSTUVWXYZ["
AsciiMid == "]^_"
AsciiHigh == "abcdefghijklmnopqrstuvwxyz{|}~"

IndexIn(s, c) == CHOOSE i \in 1..Len(s) : CharAt(s, i) = c

\* the UTF-8 byte of an ASCII character
CodeOf(c) ==
  IF c = " " THEN 32
  ELSE IF c = "!" THEN 33
  ELSE IF \E i \in 1..Len(AsciiLow) : CharAt(AsciiLow, i) = c
       THEN 34 + IndexIn(AsciiLow, c)
  ELSE IF \E i \in 1..Len(AsciiMid) : CharAt(AsciiMid, i) = c
       THEN 92 + IndexIn(AsciiMid, c)
  ELSE 96 + IndexIn(AsciiHigh, c)

\* the same as a table, computed once
AsciiChars ==
  {" ", "!"} \cup {CharAt(AsciiLow, i) : i \in 1..Len(AsciiLow)}
             \cup {CharAt(AsciiMid, i) : i \in 1..Len(AsciiMid)}
             \cup {CharAt(AsciiHigh, i) : i \in 1..Len(AsciiHigh)}
CharCodeTable == [c \in AsciiChars |-> CodeOf(c)]
CharCode(c) == CharCodeTable[c]

\* String(n) for a natural number
RECURSIVE NumToString(_)
NumToString(n) ==
  IF n < 10 THEN CharAt("0123456789", n + 1)
  ELSE NumToString(n \div 10) \o CharAt("0123456789", (n % 10) + 1)

\* Array.prototype.join
RECURSIVE Join(_, _)
Join(strs, sep) ==
  IF strs = <<>> THEN ""
  ELSE IF Len(strs) = 1 THEN strs[1]
  ELSE strs[1] \o sep \o Join(Tail(strs), sep)

(***************************************************************************)
(* String.prototype.localeCompare on the strings the model uses (lower     *)
(* case letters, digits, '_'): the collation puts punctuation first, then  *)
(* digits, then letters; a proper prefix sorts first.                      *)
(***************************************************************************)
CollationOrder == "_-,;:!?./&=|0123456789abcdefghijklmnopqrstuvwxyz"

CollationRankTable ==
  [c \in {CharAt(CollationOrder, i) : i \in 1..Len(CollationOrder)} |->
     IndexIn(CollationOrder, c)]
CollationRank(c) == CollationRankTable[c]

RECURSIVE localeCompare(_, _)
localeCompare(a, b) ==
  IF Len(a) = 0 /\ Len(b) = 0 THEN 0
  ELSE IF Len(a) = 0 THEN -1
  ELSE IF Len(b) = 0 THEN 1
  ELSE LET ra == CollationRank(CharAt(a, 1))
           rb == CollationRank(CharAt(b, 1))
       IN IF ra < rb THEN -1
          ELSE IF ra > rb THEN 1
          ELSE localeCompare(SubSeq(a, 2, Len(a)), SubSeq(b, 2, Len(b)))

\* Array.prototype.sort is stable: insert x after every element that does
\* not compare greater than it.  Entries are <<key, value>>; the comparator
\* of serializePart looks at the key only.
RECURSIVE InsertByKey(_, _)
InsertByKey(sorted, x) ==
  IF sorted = <<>> THEN <<x>>
  ELSE IF localeCompare(sorted[1][1], x[1]) > 0 THEN <<x>> \o sorted
  ELSE <<sorted[1]>> \o InsertByKey(Tail(sorted), x)

RECURSIVE SortEntriesByKey(_)
SortEntriesByKey(entries) ==
  IF entries = <<>> THEN <<>>
  ELSE InsertByKey(SortEntriesByKey(SubSeq(entries, 1, Len(entries) - 1)),
                   entries[Len(entries)])

\* serializePart, cache.js 12-31
RECURSIVE serializePart(_)
serializePart(part) ==
  CASE part.t = "null" -> ""
    [] part.t = "str" -> part.s
    [] part.t = "num" -> NumToString(part.n)
    [] part.t = "usp" ->
         Join([i \in 1..Len(part.q) |-> part.q[i][1] \o "=" \o part.q[i][2]], "&")
    [] part.t = "arr" ->
         Join([i \in 1..Len(part.e) |-> serializePart(part.e[i])], "|")
    [] part.t = "obj" ->
         LET sorted == SortEntriesByKey(part.o)
         IN Join([i \in 1..Len(sorted) |->
                    sorted[i][1] \o ":" \o serializePart(sorted[i][2])], ",")

(***************************************************************************)
(* Buffer.from(raw, 'utf8').toString('base64') on ASCII text.              *)
(***************************************************************************)
Base64Alphabet == "ABCDEFGHIJKLMNOPQRSTUVWXYZabcdefghijklmnopqrstuvwxyz0123456789+/"

SextetTable == [n \in 0..63 |-> CharAt(Base64Alphabet, n + 1)]
Sextet(n) == SextetTable[n]

RECURSIVE toBase64(_)
toBase64(raw) ==
  IF Len(raw) = 0 THEN ""
  ELSE IF Len(raw) = 1 THEN
    LET b1 == CharCode(CharAt(raw, 1))
    IN Sextet(b1 \div 4) \o Sextet((b1 % 4) * 16) \o "=="
  ELSE IF Len(raw) = 2 THEN
    LET b1 == CharCode(CharAt(raw, 1))
        b2 == CharCode(CharAt(raw, 2))
    IN Sextet(b1 \div 4) \o Sextet((b1 % 4) * 16 + b2 \div 16)
         \o Sextet((b2 % 16) * 4) \o "="
  ELSE
    LET b1 == CharCode(CharAt(raw, 1))
        b2 == CharCode(CharAt(raw, 2))
        b3 == CharCode(CharAt(raw, 3))
    IN Sextet(b1 \div 4) \o Sextet((b1 % 4) * 16 + b2 \div 16)
         \o Sextet((b2 % 16) * 4 + b3 \div 64) \o Sextet(b3 % 64)
         \o toBase64(SubSeq(raw, 4, Len(raw)))

\* String.prototype.replace(/c/g, d) for a single character c
RECURSIVE ReplaceAll(_, _, _)
ReplaceAll(s, c, d) ==
  IF Len(s) = 0 THEN ""
  ELSE (IF CharAt(s, 1) = c THEN d ELSE CharAt(s, 1))
         \o ReplaceAll(SubSeq(s, 2, Len(s)), c, d)

\* String.prototype.replace(/=+$/g, '')
RECURSIVE StripTrailingEquals(_)
StripTrailingEquals(s) ==
  IF Len(s) > 0 /\ CharAt(s, Len(s)) = "="
  THEN StripTrailingEquals(SubSeq(s, 1, Len(s) - 1))
  ELSE s

\* buildCacheId, cache.js 33-41; parts is an array of values
buildCacheId(parts) ==
  LET normalized == [i \in 1..Len(parts) |-> serializePart(parts[i])]
      raw == Join(normalized, "||")
  IN StripTrailingEquals(ReplaceAll(ReplaceAll(toBase64(raw), "+", "-"), "/", "_"))

(***************************************************************************)
(* Key derivation of the TMDB proxy, functions/index.js 10-35               *)
(* (src/unnamed/part_000), and of buildCacheId on structured parts.        *)
(***************************************************************************)
\* the most entries a query of the model has
MaxParams == 2

\* the entries <<name, value>> a query is made of
ParamPairs == {<<"a", "1">>, <<"a", "2">>, <<"b", "1">>, <<"api_key", "1">>}
\* the credentials the proxy sets
CredentialValues == {"1", "2"}
\* the endpoint path of the requests
DiscoverPath == " /3/discover/movie"

RECURSIVE ParamLists(_)
ParamLists(n) ==
  IF n = 0 THEN {<<>>}
  ELSE ParamLists(n - 1) \cup
       {Append(l, p) : l \in {q \in ParamLists(n - 1) : Len(q) = n - 1},
                       p \in ParamPairs}

\* String.prototype.trim for blanks
RECURSIVE Trim(_)
Trim(s) ==
  IF Len(s) > 0 /\ CharAt(s, 1) = " " THEN Trim(SubSeq(s, 2, Len(s)))
  ELSE IF Len(s) > 0 /\ CharAt(s, Len(s)) = " " THEN Trim(SubSeq(s, 1, Len(s) - 1))
  ELSE s

\* the comparator of normalizeTmdbParams, part_000 17-22
CompareParams(x, y) ==
  IF x[1] = y[1] THEN localeCompare(x[2], y[2]) ELSE localeCompare(x[1], y[1])

\* the stable Array.prototype.sort with that comparator
RECURSIVE InsertParam(_, _)
InsertParam(sorted, x) ==
  IF sorted = <<>> THEN <<x>>
  ELSE IF CompareParams(sorted[1], x) > 0 THEN <<x>> \o sorted
  ELSE <<sorted[1]>> \o InsertParam(Tail(sorted), x)

RECURSIVE SortParams(_)
SortParams(entries) ==
  IF entries = <<>> THEN <<>>
  ELSE InsertParam(SortParams(SubSeq(entries, 1, Len(entries) - 1)),
                   entries[Len(entries)])

\* a normalizeTmdbParams that keeps the order of the query
normalizeTmdbParams_Unsorted(params) ==
  LET normalized == SelectSeq(params, LAMBDA e : e[1] # "api_key")
  IN [i \in 1..Len(normalized) |->
        [key |-> normalized[i][1], value |-> normalized[i][2]]]

\* normalizeTmdbParams, part_000 10-24; params are the entries of a
\* URLSearchParams
normalizeTmdbParams(params) ==
  LET normalized == SelectSeq(params, LAMBDA e : e[1] # "api_key")
      sorted == SortParams(normalized)
  IN [i \in 1..Len(sorted) |-> [key |-> sorted[i][1], value |-> sorted[i][2]]]

\* tmdbCacheKeyParts, part_000 26-35
tmdbCacheKeyParts(path, params) ==
  LET normalizedPath == Trim(path)
      normalizedParams == normalizeTmdbParams(params)
      serializedParams ==
        Join([i \in 1..Len(normalizedParams) |->
                normalizedParams[i].key \o "=" \o normalizedParams[i].value], "&")
  IN [parts |-> <<Str("tmdb"), Str(normalizedPath), Str(serializedParams)>>,
      normalizedPath |-> normalizedPath,
      normalizedParams |-> normalizedParams]

\* URLSearchParams.prototype.set: the first entry of the name takes the
\* value and the others go; without one the entry is appended
UspSet(params, name, value) ==
  IF \E i \in 1..Len(params) : params[i][1] = name
  THEN LET first == CHOOSE i \in 1..Len(params) :
                      /\ params[i][1] = name
                      /\ \A j \in 1..(i - 1) : params[j][1] # name
           kept == {i \in 1..Len(params) : params[i][1] # name \/ i = first}
           Nth(n) == CHOOSE i \in kept : Cardinality({j \in kept : j <= i}) = n
       IN [n \in 1..Cardinality(kept) |->
             IF Nth(n) = first THEN <<name, value>> ELSE params[Nth(n)]]
  ELSE Append(params, <<name, value>>)

\* URLSearchParams.prototype.delete
UspDelete(params, name) == SelectSeq(params, LAMBDA e : e[1] # name)

\* Object.fromEntries(params): the object's entries, a name at the place of
\* its first entry with the value of its last
ObjectFromEntries(params) ==
  LET firsts == {i \in 1..Len(params) : \A j \in 1..(i - 1) : params[j][1] # params[i][1]}
      Nth(n) == CHOOSE i \in firsts : Cardinality({j \in firsts : j <= i}) = n
      Last(name) == CHOOSE i \in 1..Len(params) :
                      /\ params[i][1] = name
                      /\ \A j \in (i + 1)..Len(params) : params[j][1] # name
  IN [n \in 1..Cardinality(firsts) |->
        <<params[Nth(n)][1], Str(params[Last(params[Nth(n)][1])][2])>>]

\* String.prototype.toLowerCase on ASCII text
UpperCase == "ABCDEFGHIJKLMNOPQRSTUVWXYZ"
LowerCase == "abcdefghijklmnopqrstuvwxyz"
RECURSIVE toLowerCase(_)
toLowerCase(s) ==
  IF Len(s) = 0 THEN ""
  ELSE LET c == CharAt(s, 1)
       IN (IF \E i \in 1..Len(UpperCase) : CharAt(UpperCase, i) = c
           THEN CharAt(LowerCase, IndexIn(UpperCase, c)) ELSE c)
            \o toLowerCase(SubSeq(s, 2, Len(s)))

\* buildOmdbCacheKeyParts, server.js 1126-1143 (src/unnamed/part_001); a
\* missing field is the empty string
buildOmdbCacheKeyParts(lookup) ==
  LET normalizedType == IF lookup.type # "" THEN toLowerCase(lookup.type) ELSE "any"
      idPart == IF lookup.imdbId # "" THEN "imdb:" \o toLowerCase(lookup.imdbId)
                ELSE IF lookup.title # "" THEN "title:" \o toLowerCase(lookup.title)
                ELSE "title:"
      yearPart == IF lookup.year # "" THEN "year:" \o lookup.year ELSE "year:"
  IN <<Str("omdb"), Str("type:" \o normalizedType), Str(idPart), Str(yearPart)>>

(***************************************************************************)
(* The tiered response cache, cache.js 1-188.                              *)
(***************************************************************************)
\* cache.js 3 sets 500; scaled down to the few keys of the model
MAX_IN_MEMORY_CACHE_ENTRIES == 2

\* the time horizon of the model
MaxTime == 3

Collections == {"tmdbCache", "omdbRatings"}
\* the key parts callers pass: an array of a string and a number
KeyParts(i) == <<Str("k"), Num(i)>>
\* the keys the cache specification reads and writes
CacheKeyIds == {1}
\* the keys the specification of the in-memory fallback reads and writes:
\* one more than the fallback holds
MemKeyIds == {1, 2, 3}
\* ttlMs arguments; 0 stands for every ttl that is not a positive number
Ttls == {0, 1}
\* what getFirestore() and the store call do in one cache call: the handle
\* is null, the call succeeds, or the call rejects
DbOutcomes == {"null", "ok", "throws"}

\* typeof status !== 'number'
NotANumber == -1
MetaNull == "null"
MetaNonObject == "non-object"

\* payloads handed to writeCachedResponse: well formed; with every field
\* but the body of a kind the normalisation replaces; with an empty body
Payloads ==
  { [status |-> 200, contentType |-> "application/json", body |-> "b1",
     metadata |-> MetaNull],
    [status |-> NotANumber, contentType |-> "", body |-> "b1",
     metadata |-> MetaNonObject],
    [status |-> 200, contentType |-> "application/json", body |-> "",
     metadata |-> MetaNull] }

\* the query of the TMDB proxy requests of the model, part_000 169-183
TmdbRequestParams == <<<<"b", "1">>, <<"a", "1">>, <<"api_key", "1">>>>
TmdbParts == tmdbCacheKeyParts(DiscoverPath, TmdbRequestParams).parts
\* the title the OMDb lookups of the model are about
OmdbLookup == [imdbId |-> "TT1", title |-> "Up", year |-> "", type |-> "movie"]
OmdbParts == buildOmdbCacheKeyParts(OmdbLookup)

\* buildCacheId on the key parts the model uses, computed once
AllKeyParts ==
  {KeyParts(k) : k \in CacheKeyIds \cup MemKeyIds} \cup {TmdbParts, OmdbParts}
CacheIdMemo == [p \in AllKeyParts |-> buildCacheId(p)]
CacheId(parts) == CacheIdMemo[parts]
\* the keyParts field of a stored document, cache.js 168, computed once
NormalizedPartsMemo ==
  [p \in AllKeyParts |-> [i \in 1..Len(p) |-> serializePart(p[i])]]

\* the value null of a read
Miss == [miss |-> TRUE]

VARIABLES
  now,               \* Date.now() and the store's server time
  REQUIRE_FIRESTORE, \* cache.js 5-10, fixed when the module loads
  durable,           \* the document store: <<collection, docId>> -> document
  inMemoryCache,     \* cache.js 4: the Map, as its entries in insertion order
  ret,               \* the cache call that ran last and what it resolved with
  written            \* history: <<collection, docId>> -> the last payload
                     \* with a body handed to writeCachedResponse, with the
                     \* defaults for the fields it lacks, and when

cacheVars == <<now, REQUIRE_FIRESTORE, durable, inMemoryCache, ret, written>>

Put(f, k, v) == [y \in (DOMAIN f) \cup {k} |-> IF y = k THEN v ELSE f[y]]

MapHas(mem, docId) == \E i \in 1..Len(mem) : mem[i].docId = docId
MapGet(mem, docId) == mem[CHOOSE i \in 1..Len(mem) : mem[i].docId = docId].entry
\* Map.prototype.set keeps the position of a key that is present
MapSet(mem, docId, entry) ==
  IF MapHas(mem, docId)
  THEN [i \in 1..Len(mem) |->
          IF mem[i].docId = docId THEN [docId |-> docId, entry |-> entry] ELSE mem[i]]
  ELSE Append(mem, [docId |-> docId, entry |-> entry])
MapDelete(mem, docId) == SelectSeq(mem, LAMBDA e : e.docId # docId)

\* the normalisation of cache.js 48-57, 108-116 and 153-161
normalizePayload(p) ==
  [status |-> IF p.status # NotANumber THEN p.status ELSE 200,
   contentType |-> IF p.contentType # "" THEN p.contentType ELSE "application/json",
   body |-> p.body,
   metadata |-> IF p.metadata \in {MetaNull, MetaNonObject} THEN MetaNull ELSE p.metadata]

\* a rememberInMemory that spares the first key of the Map and drops the
\* second
rememberInMemory_EvictsSecond(mem, docId, payload, fetchedAt) ==
  IF REQUIRE_FIRESTORE THEN mem
  ELSE IF docId = "" \/ payload.body = "" THEN mem
  ELSE LET normalizedPayload == normalizePayload(payload) @@ [fetchedAt |-> fetchedAt]
           set == MapSet(mem, docId, normalizedPayload)
       IN IF Len(set) > MAX_IN_MEMORY_CACHE_ENTRIES
          THEN <<Head(set)>> \o Tail(Tail(set)) ELSE set

\* a rememberInMemory without the REQUIRE_FIRESTORE guard of cache.js 44
rememberInMemory_Unguarded(mem, docId, payload, fetchedAt) ==
  IF docId = "" \/ payload.body = "" THEN mem
  ELSE LET normalizedPayload == normalizePayload(payload) @@ [fetchedAt |-> fetchedAt]
           set == MapSet(mem, docId, normalizedPayload)
       IN IF Len(set) > MAX_IN_MEMORY_CACHE_ENTRIES THEN Tail(set) ELSE set

\* rememberInMemory, cache.js 43-65: the Map afterwards
rememberInMemory(mem, docId, payload, fetchedAt) ==
  IF REQUIRE_FIRESTORE THEN mem
  ELSE IF docId = "" \/ payload.body = "" THEN mem
  ELSE LET normalizedPayload == normalizePayload(payload) @@ [fetchedAt |-> fetchedAt]
           set == MapSet(mem, docId, normalizedPayload)
       IN IF Len(set) > MAX_IN_MEMORY_CACHE_ENTRIES THEN Tail(set) ELSE set

\* an expiry test that already drops an entry at the age ttlMs
TtlExpired_AtTtl(ttlMs, fetchedAt) == ttlMs > 0 /\ now - fetchedAt >= ttlMs

\* the expiry test of cache.js 72 and 130
TtlExpired(ttlMs, fetchedAt) == ttlMs > 0 /\ now - fetchedAt > ttlMs

\* readInMemoryCache, cache.js 67-82: the value returned and the Map afterwards
readInMemoryCache(mem, docId, ttlMs) ==
  IF REQUIRE_FIRESTORE THEN [result |-> Miss, mem |-> mem]
  ELSE IF docId = "" THEN [result |-> Miss, mem |-> mem]
  ELSE IF ~MapHas(mem, docId) THEN [result |-> Miss, mem |-> mem]
  ELSE LET entry == MapGet(mem, docId)
       IN IF TtlExpired(ttlMs, entry.fetchedAt)
          THEN [result |-> Miss, mem |-> MapDelete(mem, docId)]
          ELSE [result |-> [status |-> entry.status, contentType |-> entry.contentType,
                            body |-> entry.body, metadata |-> entry.metadata],
                mem |-> mem]

\* the fallback every miss branch of readCachedResponse takes
ReadFallback(mem, docId, ttlMs) ==
  IF REQUIRE_FIRESTORE
  THEN [result |-> Miss, mem |-> mem, rejected |-> FALSE, logged |-> FALSE]
  ELSE readInMemoryCache(mem, docId, ttlMs) @@ [rejected |-> FALSE, logged |-> FALSE]

\* a catch block that logs and rethrows
ReadCatch_Rethrows(mem, docId, ttlMs) ==
  [result |-> Miss, mem |-> mem, rejected |-> TRUE, logged |-> TRUE]

\* the catch block of readCachedResponse, cache.js 136-142: the error is
\* logged and the fallback answers
ReadCatch(mem, docId, ttlMs) ==
  [ReadFallback(mem, docId, ttlMs) EXCEPT !.logged = TRUE]

\* readCachedResponse, cache.js 84-143, on the Map mem and the store: the
\* value it resolves with, the Map afterwards, whether the promise rejects,
\* whether console.error ran
readCachedResponse(mem, store, collection, parts, ttlMs, db) ==
  LET docId == CacheId(parts)
  IN IF db = "null" THEN ReadFallback(mem, docId, ttlMs)
     ELSE IF db = "throws" THEN ReadCatch(mem, docId, ttlMs)
     ELSE IF <<collection, docId>> \notin DOMAIN store
          THEN ReadFallback(mem, docId, ttlMs)
     ELSE LET data == store[<<collection, docId>>]
          IN IF data.body = "" THEN ReadFallback(mem, docId, ttlMs)
             ELSE LET payload == normalizePayload(data)
                      fetchedMs == data.fetchedAt
                  IN IF fetchedMs = 0
                     THEN IF ttlMs > 0 THEN ReadFallback(mem, docId, ttlMs)
                          ELSE [result |-> payload,
                                mem |-> rememberInMemory(mem, docId, payload, now),
                                rejected |-> FALSE, logged |-> FALSE]
                     ELSE IF TtlExpired(ttlMs, fetchedMs)
                     THEN [result |-> Miss, mem |-> MapDelete(mem, docId),
                           rejected |-> FALSE, logged |-> FALSE]
                     ELSE [result |-> payload,
                           mem |-> rememberInMemory(mem, docId, payload, fetchedMs),
                           rejected |-> FALSE, logged |-> FALSE]

\* the catch block of writeCachedResponse, cache.js 185-187: whether the
\* promise rejects
WriteCatch == FALSE

\* a writeCachedResponse that remembers the payload only once the store has
\* taken it
writeCachedResponse_RemembersAfterStore(mem, store, collection, parts, payload, db) ==
  IF payload.body = "" \/ db # "ok"
  THEN [mem |-> mem, store |-> store, rejected |-> FALSE, logged |-> db = "throws"]
  ELSE LET docId == CacheId(parts)
           normalizedPayload == normalizePayload(payload)
       IN [mem |-> rememberInMemory(mem, docId, normalizedPayload, now),
           store |-> Put(store, <<collection, docId>>,
                         normalizedPayload @@
                           [keyParts |-> NormalizedPartsMemo[parts], fetchedAt |-> now]),
           rejected |-> FALSE, logged |-> FALSE]

\* writeCachedResponse, cache.js 145-188, on the Map mem and the store: the
\* Map and the store afterwards, whether the promise rejects, whether
\* console.error ran
writeCachedResponse(mem, store, collection, parts, payload, db) ==
  IF payload.body = ""
  THEN [mem |-> mem, store |-> store, rejected |-> FALSE, logged |-> FALSE]
  ELSE LET docId == CacheId(parts)
           normalizedParts == NormalizedPartsMemo[parts]
           normalizedPayload == normalizePayload(payload)
           remembered == rememberInMemory(mem, docId, normalizedPayload, now)
       IN IF db = "null"
          THEN [mem |-> remembered, store |-> store, rejected |-> FALSE,
                logged |-> FALSE]
          ELSE IF db = "throws"
          THEN [mem |-> remembered, store |-> store, rejected |-> WriteCatch,
                logged |-> TRUE]
          ELSE [mem |-> remembered,
                store |-> Put(store, <<collection, docId>>,
                              normalizedPayload @@
                                [keyParts |-> normalizedParts, fetchedAt |-> now]),
                rejected |-> FALSE, logged |-> FALSE]

\* the history after a write call
Record(c, k, payload) ==
  IF payload.body = "" THEN written
  ELSE Put(written, <<c, CacheId(KeyParts(k))>>,
           [payload |-> normalizePayload(payload), at |-> now])

\* one call of readCachedResponse
Read(c, k, ttlMs, db) ==
  \E r \in {readCachedResponse(inMemoryCache, durable, c, KeyParts(k), ttlMs, db)} :
     /\ inMemoryCache' = r.mem
     /\ ret' = [op |-> "read", value |-> r.result, rejected |-> r.rejected,
                logged |-> r.logged]
     /\ UNCHANGED <<now, REQUIRE_FIRESTORE, durable, written>>

\* one call of writeCachedResponse
Write(c, k, payload, db) ==
  \E w \in {writeCachedResponse(inMemoryCache, durable, c, KeyParts(k), payload, db)} :
     /\ inMemoryCache' = w.mem
     /\ durable' = w.store
     /\ ret' = [op |-> "write", value |-> Miss, rejected |-> w.rejected,
                logged |-> w.logged]
     /\ written' = Record(c, k, payload)
     /\ UNCHANGED <<now, REQUIRE_FIRESTORE>>

\* a caller that awaits writeCachedResponse and then at once awaits
\* readCachedResponse for the same collection and key parts, as one step
WriteThenRead(c, k, payload, dbw, ttlMs, dbr) ==
  \E w \in {writeCachedResponse(inMemoryCache, durable, c, KeyParts(k), payload, dbw)} :
  \E r \in {readCachedResponse(w.mem, w.store, c, KeyParts(k), ttlMs, dbr)} :
     /\ inMemoryCache' = r.mem
     /\ durable' = w.store
     /\ ret' = [op |-> "write-read", value |-> r.result,
                rejected |-> w.rejected \/ r.rejected,
                logged |-> w.logged \/ r.logged]
     /\ written' = Record(c, k, payload)
     /\ UNCHANGED <<now, REQUIRE_FIRESTORE>>

\* time passes
Tick ==
  /\ now < MaxTime
  /\ now' = now + 1
  /\ UNCHANGED <<REQUIRE_FIRESTORE, durable, inMemoryCache, ret, written>>

CacheInit ==
  /\ now = 1
  /\ REQUIRE_FIRESTORE \in BOOLEAN
  /\ durable = <<>>
  /\ inMemoryCache = <<>>
  /\ ret = [op |-> "none", value |-> Miss, rejected |-> FALSE, logged |-> FALSE]
  /\ written = <<>>

(***************************************************************************)
(* The key specification: two queries and the keys derived from them.      *)
(***************************************************************************)
NoKeys == [derived |-> FALSE]

VARIABLES
  paramsA,   \* a query: the entries of its URLSearchParams
  paramsB,   \* the same query, reordered and with another credential
  derived    \* the keys derived from the two, or NoKeys

keyVars == <<paramsA, paramsB, derived>>

\* the keys of one query: as the proxy builds its cache key (part_000
\* 37-40), with the URLSearchParams itself as a key part, and with the
\* query as an object key part
KeysOf(params) ==
  [tmdb |-> buildCacheId(tmdbCacheKeyParts(DiscoverPath, params).parts),
   usp |-> buildCacheId(<<Str("tmdb"), Str(Trim(DiscoverPath)), Usp(params)>>),
   obj |-> buildCacheId(<<Str("tmdb"), Str(Trim(DiscoverPath)),
                          Obj(ObjectFromEntries(params))>>)]

\* the caller hands the entries over in another order
Reorder(i) ==
  /\ i \in 1..(Len(paramsB) - 1)
  /\ paramsB' = [paramsB EXCEPT ![i] = paramsB[i + 1], ![i + 1] = paramsB[i]]
  /\ derived' = NoKeys
  /\ UNCHANGED paramsA

\* params.set('api_key', apiKey), part_000 183
SetCredential(v) ==
  /\ paramsB' = UspSet(paramsB, "api_key", v)
  /\ paramsB' # paramsB
  /\ derived' = NoKeys
  /\ UNCHANGED paramsA

\* a query without the credential
DeleteCredential ==
  /\ paramsB' = UspDelete(paramsB, "api_key")
  /\ paramsB' # paramsB
  /\ derived' = NoKeys
  /\ UNCHANGED paramsA

\* the keys of both queries are derived
DeriveKeys ==
  /\ derived = NoKeys
  /\ derived' = [derived |-> TRUE, a |-> KeysOf(paramsA), b |-> KeysOf(paramsB)]
  /\ UNCHANGED <<paramsA, paramsB>>

KeyInit ==
  /\ paramsA \in ParamLists(MaxParams)
  /\ paramsB = paramsA
  /\ derived = NoKeys

\* the values of the key variables while another component runs
KeyIdle == paramsA = <<>> /\ paramsB = <<>> /\ derived = NoKeys

\* the values of the cache variables while another component runs
CacheIdle == CacheInit /\ ~REQUIRE_FIRESTORE

(***************************************************************************)
(* The callers that cache upstream responses: tmdbProxy, functions/index.js *)
(* 125-216 (src/unnamed/part_000), and lookupAndCacheOmdbRatings, server.js *)
(* 1272-1399 (src/unnamed/part_001).                                       *)
(***************************************************************************)
TMDB_CACHE_COLLECTION == "tmdbCache"
OMDB_CACHE_COLLECTION == "omdbRatings"
\* part_000 8 sets six hours and part_001 479 twelve; one time unit of the
\* model is six hours
TMDB_CACHE_TTL_MS == 1
OMDB_CACHE_TTL_MS == 2

\* what fetch() of the TMDB url does: it rejects, or it resolves with a
\* response (a missing content-type header is the empty string)
TmdbUpstream ==
  { [kind |-> "throws"],
    [kind |-> "response", ok |-> TRUE, status |-> 200,
     contentType |-> "application/json", body |-> "movies"],
    [kind |-> "response", ok |-> TRUE, status |-> 200, contentType |-> "", body |-> ""],
    [kind |-> "response", ok |-> FALSE, status |-> 404,
     contentType |-> "application/json", body |-> "not-found"],
    [kind |-> "response", ok |-> FALSE, status |-> 429, contentType |-> "",
     body |-> "rate-limited"] }

\* what fetch() of the OMDb url does.  data is what response.json() gives:
\* null, a value that is not an object, an object with Response 'False' and
\* an Error message, an object with ratings; json() rejects on a body that
\* is not JSON
OmdbUpstream ==
  { [kind |-> "throws"],
    [kind |-> "response", ok |-> FALSE, status |-> 500, data |-> "null", error |-> ""],
    [kind |-> "response", ok |-> TRUE, status |-> 200, data |-> "not-json", error |-> ""],
    [kind |-> "response", ok |-> TRUE, status |-> 200, data |-> "null", error |-> ""],
    [kind |-> "response", ok |-> TRUE, status |-> 200, data |-> "non-object", error |-> ""],
    [kind |-> "response", ok |-> TRUE, status |-> 200, data |-> "False",
     error |-> "Invalid API key!"],
    [kind |-> "response", ok |-> TRUE, status |-> 200, data |-> "False",
     error |-> "Request limit reached!"],
    [kind |-> "response", ok |-> TRUE, status |-> 200, data |-> "False",
     error |-> "Movie not found!"],
    [kind |-> "response", ok |-> TRUE, status |-> 200, data |-> "ratings", error |-> ""] }

\* String.prototype.includes
Includes(s, sub) ==
  \E i \in 1..(Len(s) - Len(sub) + 1) : SubSeq(s, i, i + Len(sub) - 1) = sub

\* the outcome of a lookup whose response carries no result, part_001
\* 1335-1361
NegativeOutcome(message) ==
  LET normalized == toLowerCase(message)
  IN IF Includes(normalized, "api key") THEN "invalid_key"
     ELSE IF Includes(normalized, "limit") \/ Includes(normalized, "too many")
             \/ Includes(normalized, "request limit")
          THEN "rate_limited"
     ELSE "not_found"

\* the same for the messages of the model, computed once
NegativeOutcomeTable ==
  [m \in {up.error : up \in {u \in OmdbUpstream : u.kind = "response"}} |->
     NegativeOutcome(m)]

\* safeReadCachedResponse, part_001 586-593
safeReadCachedResponse(mem, store, collection, keyParts, ttlMs, db) ==
  LET r == readCachedResponse(mem, store, collection, keyParts, ttlMs, db)
  IN IF r.rejected THEN [result |-> Miss, mem |-> r.mem, rejected |-> FALSE,
                         logged |-> TRUE]
     ELSE r

\* safeWriteCachedResponse, part_001 595-601
safeWriteCachedResponse(mem, store, collection, keyParts, payload, db) ==
  LET w == writeCachedResponse(mem, store, collection, keyParts, payload, db)
  IN IF w.rejected THEN [w EXCEPT !.rejected = FALSE, !.logged = TRUE] ELSE w

\* nothing sent yet
NothingSent == [handler |-> "none"]

VARIABLES
  sent   \* what the handler that ran last answered: the response of
         \* tmdbProxy and where it came from, the outcome of the lookup

proxyVars == <<sent>>

\* the response tmdbProxy sends
TmdbSent(from, status, contentType, body) ==
  [handler |-> "tmdbProxy", from |-> from, status |-> status,
   contentType |-> contentType, body |-> body]

\* part_000 209-211: the upstream response is relayed; w is the cache after
\* the write, if there was one
TmdbRelay(w, up, contentType) ==
  [mem |-> w.mem, store |-> w.store,
   sent |-> TmdbSent("upstream", up.status, contentType, up.body)]

\* a handler that caches whatever the upstream answers
TmdbRespond_CachesAnyResponse(cached, store, up, dbw) ==
  IF cached.result # Miss
  THEN [mem |-> cached.mem, store |-> store,
        sent |-> TmdbSent("cache", cached.result.status, cached.result.contentType,
                          cached.result.body)]
  ELSE IF up.kind = "throws"
  THEN [mem |-> cached.mem, store |-> store,
        sent |-> TmdbSent("error", 500, "application/json", "tmdb_proxy_failed")]
  ELSE TmdbRelay(
         writeCachedResponse(cached.mem, store, TMDB_CACHE_COLLECTION, TmdbParts,
            [status |-> up.status,
             contentType |-> IF up.contentType # "" THEN up.contentType
                             ELSE "application/json",
             body |-> up.body, metadata |-> "discover"], dbw),
         up,
         IF up.contentType # "" THEN up.contentType ELSE "application/json")

\* part_000 188-215: what tmdbProxy does with the result of the cache read
TmdbRespond(cached, store, up, dbw) ==
  IF cached.result # Miss
  THEN [mem |-> cached.mem, store |-> store,
        sent |-> TmdbSent("cache", cached.result.status, cached.result.contentType,
                          cached.result.body)]
  ELSE IF up.kind = "throws"
  THEN [mem |-> cached.mem, store |-> store,
        sent |-> TmdbSent("error", 500, "application/json", "tmdb_proxy_failed")]
  ELSE TmdbRelay(
         IF up.ok
         THEN writeCachedResponse(cached.mem, store, TMDB_CACHE_COLLECTION, TmdbParts,
                [status |-> up.status,
                 contentType |-> IF up.contentType # "" THEN up.contentType
                                 ELSE "application/json",
                 body |-> up.body, metadata |-> "discover"], dbw)
         ELSE [mem |-> cached.mem, store |-> store],
         up,
         IF up.contentType # "" THEN up.contentType ELSE "application/json")

\* the request handler of tmdbProxy from the cache read on, part_000
\* 187-215, for a GET of the discover endpoint: the Map, the store and the
\* response afterwards.  dbr and dbw are what the store does in the read
\* and in the write, up what fetch() does
tmdbProxy(mem, store, dbr, up, dbw) ==
  TmdbRespond(readCachedResponse(mem, store, TMDB_CACHE_COLLECTION, TmdbParts,
                                 TMDB_CACHE_TTL_MS, dbr),
              store, up, dbw)

\* the result of a lookup
OmdbOutcome(outcome, madeNetworkRequest, mem, store) ==
  [mem |-> mem, store |-> store,
   sent |-> [handler |-> "omdb", outcome |-> outcome,
             madeNetworkRequest |-> madeNetworkRequest]]

\* part_001 1387-1391, after the write
OmdbFetched(w) == OmdbOutcome("fetched", TRUE, w.mem, w.store)

\* part_001 1302-1398: what the lookup does with the result of the cache
\* read
OmdbAfterRead(cached, store, up, dbw) ==
  IF cached.result # Miss /\ cached.result.body # ""
  THEN OmdbOutcome("cache_hit", FALSE, cached.mem, store)
  ELSE IF up.kind = "throws" THEN OmdbOutcome("request_failed", TRUE, cached.mem, store)
  ELSE IF ~up.ok THEN OmdbOutcome("request_failed", TRUE, cached.mem, store)
  ELSE IF up.data = "not-json"
       THEN OmdbOutcome("request_failed", TRUE, cached.mem, store)
  ELSE IF up.data = "null" THEN OmdbOutcome("not_found", TRUE, cached.mem, store)
  ELSE IF up.data = "False"
       THEN OmdbOutcome(NegativeOutcomeTable[up.error], TRUE, cached.mem, store)
  ELSE IF up.data = "non-object"
       THEN OmdbOutcome("not_found", TRUE, cached.mem, store)
  ELSE OmdbFetched(
         safeWriteCachedResponse(cached.mem, store, OMDB_CACHE_COLLECTION, OmdbParts,
            [status |-> NotANumber, contentType |-> "", body |-> up.data,
             metadata |-> "movie"], dbw))

\* lookupAndCacheOmdbRatings, part_001 1272-1399, for the title OmdbLookup
\* (OmdbParts are its buildOmdbCacheKeyParts): the Map, the store and the
\* outcome afterwards
lookupAndCacheOmdbRatings(mem, store, apiKey, forceRefresh, dbr, up, dbw) ==
  IF apiKey = "" THEN OmdbOutcome("invalid_key", FALSE, mem, store)
  ELSE OmdbAfterRead(
         IF forceRefresh
         THEN [result |-> Miss, mem |-> mem]
         ELSE safeReadCachedResponse(mem, store, OMDB_CACHE_COLLECTION, OmdbParts,
                                     OMDB_CACHE_TTL_MS, dbr),
         store, up, dbw)

\* one request to tmdbProxy
TmdbProxyRequest(dbr, up, dbw) ==
  \E r \in {tmdbProxy(inMemoryCache, durable, dbr, up, dbw)} :
     /\ inMemoryCache' = r.mem
     /\ durable' = r.store
     /\ sent' = r.sent
     /\ UNCHANGED <<now, REQUIRE_FIRESTORE, ret, written>>

\* one call of lookupAndCacheOmdbRatings
LookupOmdb(apiKey, forceRefresh, dbr, up, dbw) ==
  \E r \in {lookupAndCacheOmdbRatings(inMemoryCache, durable, apiKey, forceRefresh,
                                       dbr, up, dbw)} :
     /\ inMemoryCache' = r.mem
     /\ durable' = r.store
     /\ sent' = r.sent
     /\ UNCHANGED <<now, REQUIRE_FIRESTORE, ret, written>>

ProxyInit == sent = NothingSent

\* the inputs of a tmdbProxy request: what the store does in the read, what
\* fetch() does, what the store does in the write; where no write follows,
\* the last is of no account and fixed
TmdbInputs ==
  {[dbr |-> dbr, up |-> up, dbw |-> dbw] :
     dbr \in DbOutcomes, up \in TmdbUpstream, dbw \in DbOutcomes}
TmdbRequests ==
  {i \in TmdbInputs :
     i.dbw = "ok" \/ (i.up.kind = "response" /\ i.up.ok /\ i.up.body # "")}

\* the inputs of a lookup: the key, forceRefresh, what the store does in the
\* read, what fetch() does, what the store does in the write; an input the
\* call never gets to is of no account and fixed
OmdbInputs ==
  {[apiKey |-> apiKey, forceRefresh |-> forceRefresh, dbr |-> dbr, up |-> up,
    dbw |-> dbw] :
     apiKey \in {"", "key"}, forceRefresh \in BOOLEAN, dbr \in DbOutcomes,
     up \in OmdbUpstream, dbw \in DbOutcomes}
OmdbLookups ==
  {i \in OmdbInputs :
     /\ i.apiKey = "" =>
          (~i.forceRefresh /\ i.dbr = "ok" /\ i.up.kind = "throws" /\ i.dbw = "ok")
     /\ i.forceRefresh => i.dbr = "ok"
     /\ i.dbw = "ok" \/ (i.up.kind = "response" /\ i.up.data = "ratings")}

(***************************************************************************)
(* The critic-score enrichment queue, cache.js 382-397, 474-929.           *)
(* Automatic fetching is enabled (isAutoCriticFetchEnabled, 766-778).      *)
(***************************************************************************)
\* the limits of cache.js 392-393, scaled down
AUTO_CRITIC_FETCH_CONCURRENCY == 1
AUTO_CRITIC_FETCH_BATCH_LIMIT == 2
\* the clicks on a fetch button
MaxManual == 1

\* The movie objects of the page; a missing field is Null or the empty
\* string.  Objects 1 and 2 are two copies of one title (a re-fetched or
\* restored copy has the same id); object 4 has an id but nothing to look
\* it up by.
Movies ==
  << [id |-> Num(1), imdb_id |-> "", title |-> "Up", release_date |-> "2009-05-29"],
     [id |-> Num(1), imdb_id |-> "", title |-> "Up", release_date |-> "2009-05-29"],
     [id |-> Null, imdb_id |-> " tt2 ", title |-> "", release_date |-> ""],
     [id |-> Num(3), imdb_id |-> "", title |-> "", release_date |-> ""] >>
MovieIds == 1..Len(Movies)

Digits == "0123456789"
IsDigit(c) == \E i \in 1..Len(Digits) : CharAt(Digits, i) = c

\* s.split('-')[0]
RECURSIVE BeforeDash(_)
BeforeDash(s) ==
  IF Len(s) = 0 \/ CharAt(s, 1) = "-" THEN ""
  ELSE CharAt(s, 1) \o BeforeDash(SubSeq(s, 2, Len(s)))

NoKey == ""

\* getMovieCacheKey, cache.js 486-513
getMovieCacheKey(movie) ==
  IF movie.id # Null THEN "tmdb:" \o NumToString(movie.id.n)
  ELSE IF Trim(movie.imdb_id) # "" THEN "imdb:" \o Trim(movie.imdb_id)
  ELSE IF Trim(movie.title) = "" THEN NoKey
  ELSE LET first == BeforeDash(Trim(movie.release_date))
           year == IF Len(first) = 4 /\ \A i \in 1..4 : IsDigit(CharAt(first, i))
                   THEN first ELSE ""
       IN "title:" \o toLowerCase(Trim(movie.title)) \o "|year:" \o year

NoLookup == [none |-> TRUE]

\* buildCriticLookup, cache.js 694-721
buildCriticLookup(movie) ==
  LET imdbId == Trim(movie.imdb_id)
      titleSource == Trim(movie.title)
      date == Trim(movie.release_date)
      year == IF Len(date) >= 4 /\ \A i \in 1..4 : IsDigit(CharAt(date, i))
              THEN SubSeq(date, 1, 4) ELSE ""
  IN IF imdbId = "" /\ titleSource = "" THEN NoLookup
     ELSE [imdbId |-> imdbId, title |-> titleSource, year |-> year, type |-> "movie"]

\* canRequestCriticScores, cache.js 723-726
canRequestCriticScores(movie) ==
  LET lookup == buildCriticLookup(movie)
  IN lookup # NoLookup /\ (lookup.imdbId # "" \/ lookup.title # "")

\* the two, computed once per object
MovieKeyTable == [m \in MovieIds |-> getMovieCacheKey(Movies[m])]
KeyOf(m) == MovieKeyTable[m]
MovieKeys == {KeyOf(m) : m \in MovieIds}
RequestableTable == [m \in MovieIds |-> canRequestCriticScores(Movies[m])]
LookupTable == [m \in MovieIds |-> buildCriticLookup(Movies[m])]

\* critic scores: the Rotten Tomatoes percentage stands for the ratings
Scores(n) == [t |-> "scores", rottenTomatoes |-> n]

\* a || b
Or(a, b) == IF a # Null THEN a ELSE b

\* parseCriticPercent on a number or null, cache.js 515-523
parseCriticPercent(value) ==
  IF value = Null THEN Null
  ELSE Num(IF value.n > 100 THEN 100 ELSE value.n)

\* normalizeCriticScoresObject, cache.js 544-618
normalizeCriticScoresObject(raw) ==
  IF raw.t # "scores" THEN Null
  ELSE Scores(parseCriticPercent(raw.rottenTomatoes))

\* normalizeCriticScoresResponse, cache.js 620-626
normalizeCriticScoresResponse(data) ==
  IF data.t # "scores" THEN Null ELSE normalizeCriticScoresObject(data)

\* summarizeError on an Error, cache.js 474-484
summarizeError(message) ==
  IF Trim(message) # "" THEN Trim(message) ELSE "Unknown error"

\* a critic-score state; no error is the empty string
State(status, data, error) == [status |-> status, data |-> data, error |-> error]
\* no state object: an unset movie.criticScoresState, a key not in the map
Absent == State("", Null, "")
Idle == State("idle", Null, "")

\* what /api/movie-ratings does: fetch() throws; a response that is not ok,
\* with or without a JSON message; an ok response whose body does not
\* parse, parses to null, or holds ratings
FetchOutcomes ==
  { [kind |-> "throws", message |-> "Failed to fetch"],
    [kind |-> "http", status |-> 500, message |-> ""],
    [kind |-> "ok", parsed |-> FALSE, data |-> Null],
    [kind |-> "ok", parsed |-> TRUE, data |-> Null],
    [kind |-> "ok", parsed |-> TRUE, data |-> Scores(Num(150))] }

VARIABLES
  autoCriticFetchQueue,     \* cache.js 394: the queued movie objects, in order
  autoCriticQueuedKeys,     \* cache.js 395
  autoCriticInFlightKeys,   \* cache.js 396
  autoCriticInFlightCount,  \* cache.js 397
  criticScoreStateById,     \* cache.js 382: key -> state
  movieObjects,             \* per object: criticScores, criticScoresState
  fetches,                  \* the requests awaiting their response or their .finally
  issued,                   \* per key: the fetches of /api/movie-ratings so far
  resubmitted,              \* the keys handed in again before their result
  movieCredits,             \* per object: topCast, directors
  manual,                   \* per key: the clicks on the fetch button
  drainSignals              \* the calls of refreshUI by the pump's .finally in
                            \* the last step: the count in flight and the
                            \* length of the queue at each call

queueVars ==
  <<autoCriticFetchQueue, autoCriticQueuedKeys, autoCriticInFlightKeys,
    autoCriticInFlightCount, criticScoreStateById, movieObjects, fetches,
    issued, resubmitted, movieCredits, manual, drainSignals>>

\* the state of the queue as one value
QueueState ==
  [autoCriticFetchQueue |-> autoCriticFetchQueue,
   autoCriticQueuedKeys |-> autoCriticQueuedKeys,
   autoCriticInFlightKeys |-> autoCriticInFlightKeys,
   autoCriticInFlightCount |-> autoCriticInFlightCount,
   criticScoreStateById |-> criticScoreStateById,
   movieObjects |-> movieObjects,
   fetches |-> fetches,
   issued |-> issued,
   resubmitted |-> resubmitted,
   manual |-> manual,
   drainSignals |-> <<>>]

QueueBecomes(q) ==
  /\ autoCriticFetchQueue' = q.autoCriticFetchQueue
  /\ autoCriticQueuedKeys' = q.autoCriticQueuedKeys
  /\ autoCriticInFlightKeys' = q.autoCriticInFlightKeys
  /\ autoCriticInFlightCount' = q.autoCriticInFlightCount
  /\ criticScoreStateById' = q.criticScoreStateById
  /\ movieObjects' = q.movieObjects
  /\ fetches' = q.fetches
  /\ issued' = q.issued
  /\ resubmitted' = q.resubmitted
  /\ manual' = q.manual
  /\ movieCredits' = movieCredits
  /\ drainSignals' = q.drainSignals

\* getCriticScoreState, cache.js 628-655: the state, and the queue state
\* with what the call assigned to the object and the map
getCriticScoreState_Idle(q, m) == [state |-> Idle, q |-> q]

getCriticScoreState(q, m) ==
  LET obj == q.movieObjects[m]
      key == KeyOf(m)
      existingMovieScores ==
        IF obj.criticScores # Null THEN normalizeCriticScoresObject(obj.criticScores)
        ELSE Null
      state == q.criticScoreStateById[key]
      loaded == State("loaded", existingMovieScores, "")
  IN IF obj.criticScoresState.status # "" THEN [state |-> obj.criticScoresState, q |-> q]
     ELSE IF key # NoKey /\ state # Absent THEN
       [state |-> state,
        q |-> [q EXCEPT !.movieObjects[m] =
                 [criticScores |-> IF state.data # Null /\ existingMovieScores = Null
                                   THEN state.data ELSE obj.criticScores,
                  criticScoresState |-> state]]]
     ELSE IF existingMovieScores # Null THEN
       [state |-> loaded,
        q |-> [q EXCEPT !.criticScoreStateById[key] = IF key # NoKey THEN loaded ELSE @,
                        !.movieObjects[m] =
                          [criticScores |-> existingMovieScores,
                           criticScoresState |-> loaded]]]
     ELSE [state |-> Idle, q |-> q]

\* a setCriticScoreState that keeps no earlier data with an error
setCriticScoreState_ClearsOnError(q, m, state) ==
  LET obj == q.movieObjects[m]
      key == KeyOf(m)
      existing == IF key # NoKey THEN q.criticScoreStateById[key] ELSE Absent
      normalizedData ==
        IF state.data # Null THEN normalizeCriticScoresObject(state.data) ELSE Null
      existingMovieScores ==
        IF obj.criticScores # Null THEN normalizeCriticScoresObject(obj.criticScores)
        ELSE Null
      fallbackData == Or(normalizedData, Or(existing.data, existingMovieScores))
      data == IF state.status = "error" THEN Null
              ELSE Or(normalizedData, fallbackData)
      nextState == State(state.status, data, state.error)
  IN [q EXCEPT !.movieObjects[m] =
                 [criticScores |-> IF state.status = "loaded" /\ data # Null
                                   THEN data ELSE obj.criticScores,
                  criticScoresState |-> nextState],
               !.criticScoreStateById[key] = IF key # NoKey THEN nextState ELSE @]

\* setCriticScoreState, cache.js 657-692; state.status is never missing
setCriticScoreState(q, m, state) ==
  LET obj == q.movieObjects[m]
      key == KeyOf(m)
      existing == IF key # NoKey THEN q.criticScoreStateById[key] ELSE Absent
      normalizedData ==
        IF state.data # Null THEN normalizeCriticScoresObject(state.data) ELSE Null
      existingMovieScores ==
        IF obj.criticScores # Null THEN normalizeCriticScoresObject(obj.criticScores)
        ELSE Null
      fallbackData == Or(normalizedData, Or(existing.data, existingMovieScores))
      data == IF state.status = "error" THEN fallbackData
              ELSE Or(normalizedData, fallbackData)
      nextState == State(state.status, data, state.error)
  IN [q EXCEPT !.movieObjects[m] =
                 [criticScores |-> IF state.status = "loaded" /\ data # Null
                                   THEN data ELSE obj.criticScores,
                  criticScoresState |-> nextState],
               !.criticScoreStateById[key] = IF key # NoKey THEN nextState ELSE @]

\* a request in the model: the object, its key, the request number of the
\* key, the force and refresh options of the call, what is chained to the
\* promise, whether the promise is still pending on fetch() or settled, and
\* whether the request failed
Fetch(m, n, force, refresh, chain, phase) ==
  [movie |-> m, key |-> KeyOf(m), n |-> n, force |-> force, refresh |-> refresh,
   chain |-> chain, phase |-> phase, failed |-> FALSE]

\* fetch() threw, the response was not ok, or its body did not parse
Failure(outcome) ==
  outcome.kind \in {"throws", "http"} \/ (outcome.kind = "ok" /\ ~outcome.parsed)

\* the promise of a call that returned without fetching: the pump's
\* .finally still runs for it
Resolved(q, m, chain) ==
  IF chain = "pump"
  THEN [q EXCEPT !.fetches = @ \cup {Fetch(m, 0, FALSE, FALSE, chain, "settled")}]
  ELSE q

\* requestCriticScores, cache.js 886-893: the request leaves
IssueFetch(q, m, force, refresh, chain) ==
  [q EXCEPT !.issued[KeyOf(m)] = @ + 1,
            !.fetches = @ \cup {Fetch(m, q.issued[KeyOf(m)] + 1, force, refresh, chain,
                                      "pending")}]

RECURSIVE requestCriticScores(_, _, _, _, _, _, _)

\* a pump that also starts a fetch for a key in state error
PumpStart_RetriesError(r, m) ==
  IF r.state.status \notin {"idle", "error"} THEN r.q
  ELSE requestCriticScores(
         [r.q EXCEPT !.autoCriticInFlightCount = @ + 1,
                     !.autoCriticInFlightKeys = @ \cup {KeyOf(m)}],
         m, FALSE, FALSE, FALSE, "pump", <<>>)

\* the body of the pump's loop for the object at the head, cache.js 810-834
PumpStart(r, m) ==
  IF r.state.status # "idle" THEN r.q
  ELSE requestCriticScores(
         [r.q EXCEPT !.autoCriticInFlightCount = @ + 1,
                     !.autoCriticInFlightKeys = @ \cup {KeyOf(m)}],
         m, FALSE, FALSE, FALSE, "pump", <<>>)

PumpStep(q) ==
  LET m == Head(q.autoCriticFetchQueue)
      key == KeyOf(m)
      shifted == [q EXCEPT !.autoCriticFetchQueue = Tail(@)]
      dequeued == [shifted EXCEPT !.autoCriticQueuedKeys = @ \ {key}]
  IN IF key = NoKey THEN shifted
     ELSE IF key \in q.autoCriticInFlightKeys THEN dequeued
     ELSE PumpStart(getCriticScoreState(dequeued, m), m)

\* a pump that starts every queued fetch, whatever the count in flight
RECURSIVE pumpAutoCriticFetchQueue_Unlimited(_)
pumpAutoCriticFetchQueue_Unlimited(q) ==
  IF Len(q.autoCriticFetchQueue) > 0
  THEN pumpAutoCriticFetchQueue_Unlimited(PumpStep(q))
  ELSE q

\* pumpAutoCriticFetchQueue, cache.js 804-836
RECURSIVE pumpAutoCriticFetchQueue(_)
pumpAutoCriticFetchQueue(q) ==
  IF q.autoCriticInFlightCount < AUTO_CRITIC_FETCH_CONCURRENCY
       /\ Len(q.autoCriticFetchQueue) > 0
  THEN pumpAutoCriticFetchQueue(PumpStep(q))
  ELSE q

\* the body of the forEach of enqueueAutoCriticScores, cache.js 843-852
AdmitIdle(r, m) ==
  IF r.state.status # "idle" THEN r.q
  ELSE [r.q EXCEPT !.autoCriticQueuedKeys = @ \cup {KeyOf(m)},
                   !.autoCriticFetchQueue = Append(@, m)]

\* an admission that does not look at the queued and in-flight keys
Admit_AnyKey(q, m) ==
  IF ~RequestableTable[m] THEN q
  ELSE IF KeyOf(m) = NoKey THEN q
  ELSE AdmitIdle(getCriticScoreState(q, m), m)

Admit(q, m) ==
  IF ~RequestableTable[m] THEN q
  ELSE IF KeyOf(m) = NoKey THEN q
  ELSE IF KeyOf(m) \in q.autoCriticQueuedKeys \/ KeyOf(m) \in q.autoCriticInFlightKeys
       THEN q
  ELSE AdmitIdle(getCriticScoreState(q, m), m)

\* the record of a second submission: an object that can be looked up,
\* handed in while its key waits in the queue or its fetch awaits the
\* response
Resubmitted(q, m) ==
  IF /\ RequestableTable[m]
     /\ \/ KeyOf(m) \in q.autoCriticQueuedKeys
        \/ \E f \in q.fetches : f.key = KeyOf(m) /\ f.phase = "pending"
  THEN [q EXCEPT !.resubmitted = @ \cup {KeyOf(m)}]
  ELSE q

RECURSIVE EnqueueEach(_, _)
EnqueueEach(q, targetMovies) ==
  IF targetMovies = <<>> THEN q
  ELSE EnqueueEach(
         Admit(Resubmitted(q, Head(targetMovies)), Head(targetMovies)),
         Tail(targetMovies))

\* enqueueAutoCriticScores, cache.js 838-855
enqueueAutoCriticScores(q, movies) ==
  IF movies = <<>> THEN q
  ELSE pumpAutoCriticFetchQueue(
         EnqueueEach(q, SubSeq(movies, 1,
           IF Len(movies) < AUTO_CRITIC_FETCH_BATCH_LIMIT THEN Len(movies)
           ELSE AUTO_CRITIC_FETCH_BATCH_LIMIT)))

\* refreshUI, cache.js 4020-4024: each visible section hands its list to
\* enqueueAutoCriticScores (3674-3676, 3837-3839, 4015-4017); lists holds
\* the lists of the visible sections
RECURSIVE refreshUI(_, _)
refreshUI(q, lists) ==
  IF lists = <<>> THEN q
  ELSE refreshUI(enqueueAutoCriticScores(q, Head(lists)), Tail(lists))

\* requestCriticScores up to its await, cache.js 857-893
RequestFrom(r, m, force, refresh, showLoading, chain, lists) ==
  IF ~force /\ r.state.status \in {"loading", "loaded"} THEN Resolved(r.q, m, chain)
  ELSE IF LookupTable[m] = NoLookup THEN
    Resolved(
      IF refresh
      THEN refreshUI(setCriticScoreState(r.q, m,
             State("error", Null, "Not enough information to fetch critic scores.")), lists)
      ELSE setCriticScoreState(r.q, m,
             State("error", Null, "Not enough information to fetch critic scores.")),
      m, chain)
  ELSE IssueFetch(
         IF showLoading /\ refresh
         THEN refreshUI(setCriticScoreState(r.q, m,
                State("loading", r.state.data, r.state.error)), lists)
         ELSE setCriticScoreState(r.q, m,
                State("loading", r.state.data, r.state.error)),
         m, force, refresh, chain)

requestCriticScores(q, m, force, refresh, showLoading, chain, lists) ==
  RequestFrom(getCriticScoreState(q, m), m, force, refresh, showLoading, chain, lists)

\* requestCriticScores after its await, cache.js 894-928: the state the
\* response leaves
Settlement(outcome) ==
  IF outcome.kind = "throws" THEN State("error", Null, summarizeError(outcome.message))
  ELSE IF outcome.kind = "http" THEN
    State("error", Null,
          summarizeError(IF outcome.message # "" THEN outcome.message
                         ELSE "Request failed with status " \o NumToString(outcome.status)))
  ELSE IF ~outcome.parsed THEN State("error", Null, summarizeError("Unexpected token"))
  ELSE IF normalizeCriticScoresResponse(outcome.data) = Null THEN
    State("error", Null, "Critic scores are unavailable for this title.")
  ELSE State("loaded", normalizeCriticScoresResponse(outcome.data), "")

Settle(q, f, outcome, lists) ==
  IF f.refresh THEN refreshUI(setCriticScoreState(q, f.movie, Settlement(outcome)), lists)
  ELSE setCriticScoreState(q, f.movie, Settlement(outcome))

\* the refreshUI() of cache.js 832, noted with the queue as it is at the call
SignalDrain(q, lists) ==
  refreshUI(
    [q EXCEPT !.drainSignals =
       Append(@, [inFlight |-> q.autoCriticInFlightCount,
                  queued |-> Len(q.autoCriticFetchQueue)])],
    lists)

\* a .finally that refreshes whatever is left in the queue
Drained_Always(q, lists) == SignalDrain(q, lists)

\* the .finally of the pump, cache.js 827-834
Drained(q, lists) ==
  IF q.autoCriticInFlightCount = 0 /\ Len(q.autoCriticFetchQueue) = 0
  THEN SignalDrain(q, lists) ELSE q

\* a .finally that does not call the pump
Finally_NoPump(q, f, lists) ==
  Drained(
    [q EXCEPT !.autoCriticInFlightCount = IF @ > 0 THEN @ - 1 ELSE 0,
              !.autoCriticInFlightKeys = @ \ {f.key}],
    lists)

Finally(q, f, lists) ==
  Drained(
    pumpAutoCriticFetchQueue(
      [q EXCEPT !.autoCriticInFlightCount = IF @ > 0 THEN @ - 1 ELSE 0,
                !.autoCriticInFlightKeys = @ \ {f.key}]),
    lists)

\* the lists a caller hands in: of one object, of two, and two longer than
\* the batch limit; and what the sections show at a refresh
Batches ==
  {<<m>> : m \in MovieIds}
    \cup {<<1, 2>>, <<1, 3>>, <<3, 2>>, <<4, 1>>, <<3, 4, 1>>, <<2, 3, 2>>}
Renders == {<<<<1, 3>>>>, <<<<2, 4, 3>>, <<3, 1>>>>}

\* a render hands its list to enqueueAutoCriticScores
Enqueue(movies) ==
  QueueBecomes(enqueueAutoCriticScores(QueueState, movies))

RECURSIVE ManualTotal(_)
ManualTotal(keys) ==
  IF keys = {} THEN 0
  ELSE LET k == CHOOSE x \in keys : TRUE
       IN manual[k] + ManualTotal(keys \ {k})

\* a click on the fetch button of an object, cache.js 947-957.  The button
\* is there for an object that can be looked up; it forces when the state
\* it was rendered from was loaded or error, and every request with
\* refresh renders the buttons anew, so a forcing button is a current one;
\* a button rendered from the idle state stays while the queue, which does
\* not render, moves the state on.
ManualRequest(m, force, lists) ==
  /\ RequestableTable[m]
  /\ ManualTotal(MovieKeys) < MaxManual
  /\ force => getCriticScoreState(QueueState, m).state.status \in {"loaded", "error"}
  /\ \E q \in {requestCriticScores(QueueState, m, force, TRUE, TRUE, "none", lists)} :
       QueueBecomes([q EXCEPT !.manual[KeyOf(m)] = @ + 1])

\* the response of a request arrives
FetchSettles(f, outcome, lists) ==
  /\ f \in fetches
  /\ f.phase = "pending"
  /\ \E q \in {Settle(QueueState, f, outcome, lists)} :
       QueueBecomes(
         [q EXCEPT !.fetches =
            (@ \ {f}) \cup (IF f.chain = "pump"
                            THEN {[f EXCEPT !.phase = "settled",
                                            !.failed = Failure(outcome)]}
                            ELSE {})])

\* the .finally of a settled request of the pump runs
FinallyRuns(f, lists) ==
  /\ f \in fetches
  /\ f.phase = "settled"
  /\ \E q \in {Finally(QueueState, f, lists)} :
       QueueBecomes([q EXCEPT !.fetches = @ \ {f}])

(***************************************************************************)
(* The credits of a movie object, cache.js 3121-3150, 3301-3352.  A field  *)
(* that is not set is the empty list.                                      *)
(***************************************************************************)
\* Array.from(new Set(names))
RECURSIVE Unique(_)
Unique(names) ==
  IF names = <<>> THEN <<>>
  ELSE <<Head(names)>> \o Unique(SelectSeq(Tail(names), LAMBDA n : n # Head(names)))

\* .map(person => person.name.trim()).filter(Boolean) on persons whose name
\* is a string
TrimmedNames(persons) ==
  SelectSeq([i \in 1..Len(persons) |-> Trim(persons[i].name.s)], LAMBDA n : n # "")

\* an applyCreditsToMovie that assigns the lists it computed, empty or not
applyCreditsToMovie_Assigns(movie, credits) ==
  IF credits = Null THEN movie
  ELSE LET named(persons) == SelectSeq(persons, LAMBDA person : person.name # Null)
           first == named(credits.cast)
       IN [topCast |-> Unique(TrimmedNames(
                         SubSeq(first, 1, IF Len(first) < 5 THEN Len(first) ELSE 5))),
           directors |-> Unique(TrimmedNames(
                           SelectSeq(named(credits.crew),
                                     LAMBDA person : person.job = "Director")))]

\* applyCreditsToMovie, cache.js 3121-3143
applyCreditsToMovie(movie, credits) ==
  IF credits = Null THEN movie
  ELSE LET named(persons) == SelectSeq(persons, LAMBDA person : person.name # Null)
           first == named(credits.cast)
           topCast == TrimmedNames(SubSeq(first, 1, IF Len(first) < 5 THEN Len(first) ELSE 5))
           directors == TrimmedNames(SelectSeq(named(credits.crew),
                                               LAMBDA person : person.job = "Director"))
       IN [topCast |-> IF Len(topCast) > 0 THEN Unique(topCast) ELSE movie.topCast,
           directors |-> IF Len(directors) > 0 THEN Unique(directors)
                         ELSE movie.directors]

\* hasEnrichedCredits, cache.js 3145-3150
hasEnrichedCredits(movie) == Len(movie.topCast) > 0 /\ Len(movie.directors) > 0

\* what a credits request gives: nothing; empty lists; a cast and a
\* director; a cast with a repeated name and a crew without a director;
\* names that are blank or not strings
Person(name, job) == [name |-> name, job |-> job]
CreditsResults ==
  { Null,
    [cast |-> <<>>, crew |-> <<>>],
    [cast |-> <<Person(Str("Ann"), "")>>, crew |-> <<Person(Str("Cy"), "Director")>>],
    [cast |-> <<Person(Str(" Bo "), ""), Person(Str("Ann"), ""), Person(Str("Bo"), "")>>,
     crew |-> <<Person(Str("Di"), "Writer")>>],
    [cast |-> <<Person(Str("  "), ""), Person(Null, "")>>,
     crew |-> <<Person(Str(" "), "Director"), Person(Null, "Director")>>] }

\* the credits of an object arrive: handed over with the feed
\* (prefetchedCredits, cache.js 3310-3317), or requested for an object that
\* lacks them (3322-3334, 3343-3347); objects without an id are left out
EnrichWithCredits(m, credits, prefetched) ==
  /\ Movies[m].id # Null
  /\ prefetched \/ ~hasEnrichedCredits(movieCredits[m])
  /\ movieCredits' = [movieCredits EXCEPT ![m] = applyCreditsToMovie(@, credits)]
  /\ UNCHANGED <<autoCriticFetchQueue, autoCriticQueuedKeys, autoCriticInFlightKeys,
                 autoCriticInFlightCount, criticScoreStateById, movieObjects, fetches,
                 issued, resubmitted, manual, drainSignals>>

\* the scores an object restored from a saved feed can carry
RestoredScores == {Null, Scores(Num(80))}

\* no key has a state yet; the third object carries the given scores
QueueStart(scores) ==
  /\ autoCriticFetchQueue = <<>>
  /\ autoCriticQueuedKeys = {}
  /\ autoCriticInFlightKeys = {}
  /\ autoCriticInFlightCount = 0
  /\ criticScoreStateById = [k \in MovieKeys |-> Absent]
  /\ movieObjects = [m \in MovieIds |->
                      [criticScores |-> IF m = 3 THEN scores ELSE Null,
                       criticScoresState |-> Absent]]
  /\ fetches = {}
  /\ issued = [k \in MovieKeys |-> 0]
  /\ resubmitted = {}
  /\ manual = [k \in MovieKeys |-> 0]
  /\ movieCredits = [m \in MovieIds |-> [topCast |-> <<>>, directors |-> <<>>]]
  /\ drainSignals = <<>>

\* the third object may be a restored one
QueueInit == \E scores \in RestoredScores : QueueStart(scores)

QueueIdle == QueueStart(Null)

(***************************************************************************)
(* The progressive discovery cursor, cache.js 258-265, 311-330, 4026-4097, *)
(* 4287-4473, 4622-4740.  The timestamps of an entry (updatedAt,           *)
(* lastAttempt) and the order applyPriorityOrdering gives are left out.    *)
(***************************************************************************)
\* the limits of cache.js 258-265 and 325, scaled down; vote averages are in
\* tenths
INITIAL_DISCOVER_PAGES == 1
MAX_DISCOVER_PAGES == 2
MAX_DISCOVER_PAGES_LIMIT == 3
MIN_VOTE_AVERAGE == 70
MIN_VOTE_COUNT == 50
MIN_PRIORITY_RESULTS == 2
TMDB_DISCOVER_HISTORY_LIMIT == 1
GENRE_SELECTION_ALL == "__all__"
\* a run starts while the next page of its signature is at most this
MaxPage == 3

\* Infinity, cache.js 4657
Infinity == 1000
\* a total page count that is null
NoTotal == 0

Max(a, b) == IF a >= b THEN a ELSE b
Min(a, b) == IF a <= b THEN a ELSE b

\* movies of the catalog
Good(id) == [id |-> id, vote_average |-> 80, vote_count |-> 100]
Fair(id) == [id |-> id, vote_average |-> 65, vote_count |-> 30]

\* DEFAULT_FEED_FILTER_STATE, cache.js 311-317
DEFAULT_FEED_FILTER_STATE ==
  [minRating |-> "", minVotes |-> "", startYear |-> "", endYear |-> "",
   selectedGenres |-> GENRE_SELECTION_ALL]
FilterStates ==
  {DEFAULT_FEED_FILTER_STATE, [DEFAULT_FEED_FILTER_STATE EXCEPT !.minRating = " 7"]}

\* getFilterFloat(value, 0, 10) on a digit, in tenths; null is NotANumber
getFilterFloat(value) ==
  IF Trim(value) = "" THEN NotANumber
  ELSE 10 * (IndexIn(Digits, Trim(value)) - 1)

\* meetsQualityThreshold, cache.js 1169-1175: a missing field counts as 0
meetsQualityThreshold(movie, minAverage, minVotes) ==
  /\ Max(movie.vote_average, 0) >= minAverage
  /\ Max(movie.vote_count, 0) >= minVotes

\* the thresholds of selectPriorityCandidates, cache.js 4029-4036
PriorityThresholds ==
  << <<MIN_VOTE_AVERAGE, MIN_VOTE_COUNT>>,
     <<Max(65, MIN_VOTE_AVERAGE - 5), Max(25, MIN_VOTE_COUNT \div 2)>>,
     <<60, 10>> >>

RECURSIVE SelectFrom(_, _, _)
SelectFrom(movies, i, bestFallback) ==
  IF i > Len(PriorityThresholds) THEN
    IF bestFallback # <<>> THEN bestFallback
    ELSE SelectSeq(movies, LAMBDA movie :
           movie.vote_average # NotANumber /\ movie.vote_count # NotANumber)
  ELSE LET filtered == SelectSeq(movies, LAMBDA movie :
                         meetsQualityThreshold(movie, PriorityThresholds[i][1],
                                               PriorityThresholds[i][2]))
       IN IF Len(filtered) >= MIN_PRIORITY_RESULTS THEN filtered
          ELSE SelectFrom(movies, i + 1,
                          IF filtered # <<>> /\ bestFallback = <<>> THEN filtered
                          ELSE bestFallback)

\* a selectPriorityCandidates without the bestFallback of cache.js 4038-4049
RECURSIVE SelectFrom_NoFallback(_, _, _)
SelectFrom_NoFallback(movies, i, bestFallback) ==
  IF i > Len(PriorityThresholds) THEN
    SelectSeq(movies, LAMBDA movie :
      movie.vote_average # NotANumber /\ movie.vote_count # NotANumber)
  ELSE LET filtered == SelectSeq(movies, LAMBDA movie :
                         meetsQualityThreshold(movie, PriorityThresholds[i][1],
                                               PriorityThresholds[i][2]))
       IN IF Len(filtered) >= MIN_PRIORITY_RESULTS THEN filtered
          ELSE SelectFrom_NoFallback(movies, i + 1, bestFallback)

selectPriorityCandidates_NoFallback(movies) ==
  IF movies = <<>> THEN <<>> ELSE SelectFrom_NoFallback(movies, 1, <<>>)

\* selectPriorityCandidates, cache.js 4026-4056
selectPriorityCandidates(movies) ==
  IF movies = <<>> THEN <<>> ELSE SelectFrom(movies, 1, <<>>)

\* applyPriorityOrdering, cache.js 4058-4097, without the order
applyPriorityOrdering(movies) ==
  IF movies = <<>> THEN movies ELSE selectPriorityCandidates(movies)

\* applyFeedFilters, cache.js 2966-3050, for the rating filter
applyFeedFilters(movies, filter) ==
  LET minRating == getFilterFloat(filter.minRating)
  IN SelectSeq(movies, LAMBDA movie :
       minRating # NotANumber =>
         (movie.vote_average # NotANumber /\ movie.vote_average >= minRating))

\* buildTmdbDiscoverKey, cache.js 4287-4297
buildTmdbDiscoverKey(usingProxy, filter) ==
  Join(<<IF usingProxy THEN "proxy" ELSE "direct", Trim(filter.minRating),
         Trim(filter.minVotes), Trim(filter.startYear), Trim(filter.endYear),
         Trim(filter.selectedGenres)>>, "|")

\* the usingProxy arguments: the page requests go through the proxy
Proxies == {TRUE}
DiscoverKeyTable ==
  [usingProxy \in Proxies |-> [filter \in FilterStates |->
     buildTmdbDiscoverKey(usingProxy, filter)]]
DiscoverKeys == {DiscoverKeyTable[u][f] : u \in Proxies, f \in FilterStates}

\* an entry of the history
Entry(nextPage, allowedPages, totalPages, exhausted) ==
  [nextPage |-> nextPage, allowedPages |-> allowedPages, totalPages |-> totalPages,
   exhausted |-> exhausted]
NoEntry == [none |-> TRUE]

\* normalizeTmdbDiscoverStateEntry, cache.js 4299-4324, on numbers
normalizeTmdbDiscoverStateEntry(raw) ==
  LET nextPage == IF raw.nextPage > 0 THEN raw.nextPage ELSE 1
  IN Entry(nextPage,
           Max(MAX_DISCOVER_PAGES,
               Max(IF raw.allowedPages > 0 THEN raw.allowedPages ELSE MAX_DISCOVER_PAGES,
                   nextPage)),
           IF raw.totalPages > 0 THEN raw.totalPages ELSE NoTotal,
           raw.exhausted)

VARIABLES
  tmdbDiscoverHistory,       \* cache.js 330: signature -> entry, in insertion order
  tmdbDiscoverStateDirty,    \* cache.js 4342, 4402
  tmdbDiscoverPersistTimer,  \* cache.js 4362: the debounce timer is set
  feedFilterState,           \* cache.js 319
  runs,                      \* the calls of fetchMoviesFromTmdb awaiting a page
  discovered,                \* how the last call to end ended
  activeUserId,              \* cache.js 369
  prefsLoadedFor,            \* cache.js 2034, 2065: whose preferences are loaded
  localDiscoverState,        \* localStorage item movieDiscoverState, cache.js 1196-1225
  remoteDiscoverState,       \* field tmdbDiscoverState of the user's document
  discoverPersists           \* the store calls of persistTmdbDiscoverState in flight

storeVars ==
  <<activeUserId, prefsLoadedFor, localDiscoverState, remoteDiscoverState,
    discoverPersists>>

cursorVars ==
  <<tmdbDiscoverHistory, tmdbDiscoverStateDirty, tmdbDiscoverPersistTimer,
    feedFilterState, runs, discovered, storeVars>>

\* the cursor state a call works on
CursorState ==
  [history |-> tmdbDiscoverHistory, dirty |-> tmdbDiscoverStateDirty,
   timer |-> tmdbDiscoverPersistTimer]

\* readTmdbDiscoverState, cache.js 4423-4428
readTmdbDiscoverState(history, key) ==
  IF key = "" THEN NoEntry
  ELSE IF ~MapHas(history, key) THEN NoEntry
  ELSE MapGet(history, key)

\* the eviction loop of cache.js 4467-4471
RECURSIVE EvictOldest(_)
EvictOldest(history) ==
  IF Len(history) > TMDB_DISCOVER_HISTORY_LIMIT THEN EvictOldest(Tail(history))
  ELSE history

\* a write that evicts nothing
writeTmdbDiscoverState_NoEviction(c, key, state) ==
  IF key = "" THEN c
  ELSE LET payload ==
             normalizeTmdbDiscoverStateEntry(
               Entry(IF state.nextPage > 0 THEN state.nextPage ELSE 1,
                     IF state.allowedPages > 0 THEN state.allowedPages
                     ELSE MAX_DISCOVER_PAGES,
                     IF state.totalPages > 0 THEN state.totalPages ELSE NoTotal,
                     state.exhausted))
           existing == readTmdbDiscoverState(c.history, key)
       IN IF existing = payload THEN c
          ELSE [history |-> Append(MapDelete(c.history, key),
                                   [docId |-> key, entry |-> payload]),
                dirty |-> TRUE, timer |-> TRUE]

\* writeTmdbDiscoverState, cache.js 4430-4473, with markTmdbDiscoverStateDirty
\* (4401-4410) and scheduleTmdbDiscoverPersist (4360-4371)
writeTmdbDiscoverState(c, key, state) ==
  IF key = "" THEN c
  ELSE LET payload ==
             normalizeTmdbDiscoverStateEntry(
               Entry(IF state.nextPage > 0 THEN state.nextPage ELSE 1,
                     IF state.allowedPages > 0 THEN state.allowedPages
                     ELSE MAX_DISCOVER_PAGES,
                     IF state.totalPages > 0 THEN state.totalPages ELSE NoTotal,
                     state.exhausted))
           existing == readTmdbDiscoverState(c.history, key)
       IN IF existing = payload THEN c
          ELSE [history |-> EvictOldest(Append(MapDelete(c.history, key),
                                               [docId |-> key, entry |-> payload])),
                dirty |-> TRUE, timer |-> TRUE]

\* a call awaiting a page: its arguments, its locals, and what the model
\* notes of it (the entry it read at its start, the pages it requested, the
\* pages that came)
NoRun == [status |-> "idle"]
NoResult == [outcome |-> "none"]

\* the merging of cache.js 4632-4638 and 4698-4706: seeds are not checked
\* against suppressedIds
RECURSIVE MergeMovies(_, _, _)
MergeMovies(run, movies, suppressedIds) ==
  IF movies = <<>> THEN run
  ELSE LET movie == Head(movies)
           idKey == NumToString(movie.id)
       IN MergeMovies(
            IF idKey \in run.seen THEN run
            ELSE [run EXCEPT !.seen = @ \cup {idKey},
                             !.collected = IF idKey \in suppressedIds THEN @
                                           ELSE Append(@, movie)],
            Tail(movies), suppressedIds)

\* the call returns, cache.js 4642, 4683, 4714, 4739
Returned(c, run, how) ==
  [cursor |-> c, run |-> NoRun,
   result |-> [outcome |-> how,
               movies |-> applyPriorityOrdering(run.collected),
               requests |-> Len(run.requested),
               history |-> run.history]]

\* commitProgress, cache.js 4661-4674; the argument exhausted is "unset",
\* "true" or "false"
commitProgress_MarksExhausted(c, run, exhausted) ==
  IF ~run.madeNetworkRequest THEN c
  ELSE writeTmdbDiscoverState(c, run.requestKey,
         Entry(Max(1, run.page),
               Max(run.allowedPages, Max(MAX_DISCOVER_PAGES, run.page)),
               IF run.totalPages # Infinity /\ run.totalPages > 0
               THEN run.totalPages ELSE NoTotal,
               TRUE))

commitProgress(c, run, exhausted) ==
  IF ~run.madeNetworkRequest THEN c
  ELSE LET normalizedTotal ==
             IF run.totalPages # Infinity /\ run.totalPages > 0
             THEN run.totalPages ELSE NoTotal
       IN writeTmdbDiscoverState(c, run.requestKey,
            Entry(Max(1, run.page),
                  Max(run.allowedPages, Max(MAX_DISCOVER_PAGES, run.page)),
                  normalizedTotal,
                  IF exhausted # "unset" THEN exhausted = "true"
                  ELSE run.reachedEnd /\ (IF normalizedTotal = NoTotal THEN TRUE
                                          ELSE run.page - 1 >= normalizedTotal)))

\* after the loop, cache.js 4733-4739
AfterLoop(c, run) ==
  LET reachedEnd ==
        \/ run.reachedEnd
        \/ /\ run.madeNetworkRequest
           /\ run.totalPages # Infinity /\ run.totalPages > 0
           /\ run.page > run.totalPages
  IN Returned(commitProgress(c, [run EXCEPT !.reachedEnd = reachedEnd], "unset"),
              run, "returned")

\* the head of the loop, cache.js 4686-4690: the next page is requested
LoopHead(c, run) ==
  IF run.page <= run.allowedPages /\ run.page <= run.totalPages
  THEN [cursor |-> c, run |-> [run EXCEPT !.requested = Append(@, run.page)],
        result |-> NoResult]
  ELSE AfterLoop(c, run)

\* fetchMoviesFromTmdb up to its first await, cache.js 4622-4690
StartFrom(c, run, filter, history) ==
  LET page == Max(1, IF history # NoEntry THEN history.nextPage ELSE 1)
      started ==
        [run EXCEPT
           !.history = history,
           !.page = page,
           !.allowedPages =
             Max(MAX_DISCOVER_PAGES,
                 Max(IF history # NoEntry /\ history.allowedPages > 0
                     THEN history.allowedPages ELSE MAX_DISCOVER_PAGES, page)),
           !.totalPages = IF history # NoEntry /\ history.totalPages > 0
                          THEN history.totalPages ELSE Infinity]
  IN IF Len(applyFeedFilters(applyPriorityOrdering(run.collected), filter))
          >= run.minFeedSize
     THEN Returned(c, run, "enough")
     ELSE IF /\ history # NoEntry
             /\ history.exhausted
             /\ history.totalPages > 0
             /\ page > history.totalPages
     THEN Returned(c, started, "skipped")
     ELSE LoopHead(c, started)

fetchMoviesFromTmdb(c, filter, usingProxy, minFeedSize, suppressedIds, existingMovies) ==
  StartFrom(c,
    MergeMovies(
      [status |-> "waiting",
       requestKey |-> DiscoverKeyTable[usingProxy][filter],
       minFeedSize |-> minFeedSize, suppressedIds |-> suppressedIds,
       seen |-> {}, collected |-> <<>>,
       page |-> 1, allowedPages |-> MAX_DISCOVER_PAGES, totalPages |-> Infinity,
       reachedEnd |-> FALSE, madeNetworkRequest |-> FALSE,
       requested |-> <<>>, fetched |-> <<>>, history |-> NoEntry],
      existingMovies, {}),
    filter,
    readTmdbDiscoverState(c.history, DiscoverKeyTable[usingProxy][filter]))

\* a loop that does not stop when the feed is long enough
AfterMerge_NoStop(c, run, filter, currentPage, empty) ==
  IF empty /\ (run.totalPages = Infinity \/ currentPage >= run.totalPages)
  THEN AfterLoop(c, [run EXCEPT !.reachedEnd = TRUE, !.page = currentPage + 1])
  ELSE LoopHead(c,
         [run EXCEPT
            !.page = currentPage + 1,
            !.allowedPages =
              IF currentPage + 1 > @ /\ @ < MAX_DISCOVER_PAGES_LIMIT
              THEN Min(MAX_DISCOVER_PAGES_LIMIT,
                       Max(@ + INITIAL_DISCOVER_PAGES, currentPage + 1))
              ELSE @])

\* a loop that any empty page stops
AfterMerge_StopsOnEmpty(c, run, filter, currentPage, empty) ==
  IF Len(applyFeedFilters(applyPriorityOrdering(run.collected), filter))
       >= run.minFeedSize
  THEN Returned(commitProgress(c, [run EXCEPT !.page = currentPage + 1], "false"),
                run, "returned")
  ELSE IF empty
  THEN AfterLoop(c, [run EXCEPT !.reachedEnd = TRUE, !.page = currentPage + 1])
  ELSE LoopHead(c,
         [run EXCEPT
            !.page = currentPage + 1,
            !.allowedPages =
              IF currentPage + 1 > @ /\ @ < MAX_DISCOVER_PAGES_LIMIT
              THEN Min(MAX_DISCOVER_PAGES_LIMIT,
                       Max(@ + INITIAL_DISCOVER_PAGES, currentPage + 1))
              ELSE @])

\* the body of the loop after the page has come, cache.js 4691-4730
AfterMerge(c, run, filter, currentPage, empty) ==
  IF Len(applyFeedFilters(applyPriorityOrdering(run.collected), filter))
       >= run.minFeedSize
  THEN Returned(commitProgress(c, [run EXCEPT !.page = currentPage + 1], "false"),
                run, "returned")
  ELSE IF empty /\ (run.totalPages = Infinity \/ currentPage >= run.totalPages)
  THEN AfterLoop(c, [run EXCEPT !.reachedEnd = TRUE, !.page = currentPage + 1])
  ELSE LoopHead(c,
         [run EXCEPT
            !.page = currentPage + 1,
            !.allowedPages =
              IF currentPage + 1 > @ /\ @ < MAX_DISCOVER_PAGES_LIMIT
              THEN Min(MAX_DISCOVER_PAGES_LIMIT,
                       Max(@ + INITIAL_DISCOVER_PAGES, currentPage + 1))
              ELSE @])

\* a call that keeps the total it has when a page reports another
PageCame_KeepsTotal(c, run, filter, response) ==
  IF response.kind = "throws"
  THEN [cursor |-> c, run |-> NoRun,
        result |-> [outcome |-> "rejected",
                    movies |-> <<>>, requests |-> Len(run.requested),
                    history |-> run.history]]
  ELSE AfterMerge(c,
         MergeMovies(
           [run EXCEPT !.madeNetworkRequest = TRUE,
                       !.fetched = Append(@, run.page),
                       !.totalPages = IF response.totalPages > 0 /\ @ = Infinity
                                      THEN response.totalPages ELSE @],
           response.results, run.suppressedIds),
         filter, run.page, response.results = <<>>)

\* a page request settles, cache.js 4688-4706
PageCame(c, run, filter, response) ==
  IF response.kind = "throws"
  THEN [cursor |-> c, run |-> NoRun,
        result |-> [outcome |-> "rejected",
                    movies |-> <<>>, requests |-> Len(run.requested),
                    history |-> run.history]]
  ELSE AfterMerge(c,
         MergeMovies(
           [run EXCEPT !.madeNetworkRequest = TRUE,
                       !.fetched = Append(@, run.page),
                       !.totalPages = IF response.totalPages > 0
                                      THEN response.totalPages ELSE @],
           response.results, run.suppressedIds),
         filter, run.page, response.results = <<>>)

\* what a discovery page request gives, cache.js 4182-4245: it fails, or it
\* gives the results of the page and the total page count (NoTotal when the
\* body has none)
PageResponses(page) ==
  {[kind |-> "throws"]}
    \cup {[kind |-> "page", results |-> results, totalPages |-> totalPages] :
            results \in {<<>>, <<Good(10 + page)>>},
            totalPages \in {NoTotal, 2}}

RunIds == {1, 2}
\* the minFeedSize arguments
FeedSizes == {1}
SeedLists == {<<>>, <<Fair(1)>>}

CursorBecomes(r) ==
  /\ tmdbDiscoverHistory' = r.cursor.history
  /\ tmdbDiscoverStateDirty' = r.cursor.dirty
  /\ tmdbDiscoverPersistTimer' = r.cursor.timer

\* a call of fetchMoviesFromTmdb; the lower free place takes it
StartRun(id, usingProxy, minFeedSize, existingMovies) ==
  /\ runs[id] = NoRun
  /\ \A other \in RunIds : other < id => runs[other] # NoRun
  /\ LET history == readTmdbDiscoverState(tmdbDiscoverHistory,
                                          DiscoverKeyTable[usingProxy][feedFilterState])
     IN history # NoEntry => history.nextPage <= MaxPage
  /\ \E r \in {fetchMoviesFromTmdb(CursorState, feedFilterState, usingProxy,
                                   minFeedSize, {}, existingMovies)} :
       /\ CursorBecomes(r)
       /\ runs' = [runs EXCEPT ![id] = r.run]
       /\ discovered' = IF r.result = NoResult THEN discovered ELSE r.result
  /\ UNCHANGED <<feedFilterState, storeVars>>

\* the page a call awaits comes
PageArrives(id, response) ==
  /\ runs[id] # NoRun
  /\ \E r \in {PageCame(CursorState, runs[id], feedFilterState, response)} :
       /\ CursorBecomes(r)
       /\ runs' = [runs EXCEPT ![id] = r.run]
       /\ discovered' = IF r.result = NoResult THEN discovered ELSE r.result
  /\ UNCHANGED <<feedFilterState, storeVars>>

\* no user: activeUserId is null; the one user of the model
NoUser == ""
Users == {"u1"}
\* the most store calls of persistTmdbDiscoverState in flight
MaxPersists == 1

\* getSerializableTmdbDiscoverState, cache.js 4345-4358: a copy of the fields
\* of every entry, in the order of the map
getSerializableTmdbDiscoverState(history) ==
  [i \in 1..Len(history) |->
     [docId |-> history[i].docId,
      entry |-> Entry(history[i].entry.nextPage, history[i].entry.allowedPages,
                      history[i].entry.totalPages, history[i].entry.exhausted)]]

\* hydrateTmdbDiscoverState, cache.js 4326-4343: the history is cleared and
\* filled from the stored entries
RECURSIVE HydrateFrom(_, _)
HydrateFrom(history, entries) ==
  IF entries = <<>> THEN EvictOldest(history)
  ELSE HydrateFrom(
         IF Head(entries).docId = "" THEN history
         ELSE MapSet(history, Head(entries).docId,
                     normalizeTmdbDiscoverStateEntry(Head(entries).entry)),
         Tail(entries))

hydrateTmdbDiscoverState(raw) ==
  /\ tmdbDiscoverHistory' = HydrateFrom(<<>>, raw)
  /\ tmdbDiscoverStateDirty' = FALSE

\* a persist that hands the store the history as it is when the call settles
PersistSettled_Rereads(call, ok) ==
  IF ok
  THEN /\ remoteDiscoverState' = getSerializableTmdbDiscoverState(tmdbDiscoverHistory)
       /\ tmdbDiscoverStateDirty' = FALSE
       /\ UNCHANGED tmdbDiscoverPersistTimer
  ELSE /\ tmdbDiscoverPersistTimer' = TRUE
       /\ UNCHANGED <<remoteDiscoverState, tmdbDiscoverStateDirty>>

\* persistTmdbDiscoverState after its await, cache.js 4387-4394: the store
\* has the payload of the call, or the call failed and the timer is set again
PersistSettled(call, ok) ==
  IF ok
  THEN /\ remoteDiscoverState' = call.serialized
       /\ tmdbDiscoverStateDirty' = FALSE
       /\ UNCHANGED tmdbDiscoverPersistTimer
  ELSE /\ tmdbDiscoverPersistTimer' = TRUE
       /\ UNCHANGED <<remoteDiscoverState, tmdbDiscoverStateDirty>>

\* the debounce timer fires, cache.js 4362-4367, and persistTmdbDiscoverState
\* runs up to its await (4373-4386, 4395-4398): without a user the state is
\* saved locally, with a user the store call leaves with the state captured
PersistTimerFires ==
  /\ tmdbDiscoverPersistTimer
  /\ tmdbDiscoverPersistTimer' = FALSE
  /\ IF ~tmdbDiscoverStateDirty
     THEN UNCHANGED <<tmdbDiscoverStateDirty, localDiscoverState, discoverPersists>>
     ELSE IF activeUserId = NoUser
     THEN /\ localDiscoverState' = getSerializableTmdbDiscoverState(tmdbDiscoverHistory)
          /\ tmdbDiscoverStateDirty' = FALSE
          /\ UNCHANGED discoverPersists
     ELSE /\ Len(discoverPersists) < MaxPersists
          /\ discoverPersists' =
               Append(discoverPersists,
                      [serialized |-> getSerializableTmdbDiscoverState(tmdbDiscoverHistory)])
          /\ UNCHANGED <<tmdbDiscoverStateDirty, localDiscoverState>>
  /\ UNCHANGED <<tmdbDiscoverHistory, feedFilterState, runs, discovered, activeUserId,
                 prefsLoadedFor, remoteDiscoverState>>

\* the oldest store call in flight settles
PersistSettles(ok) ==
  /\ discoverPersists # <<>>
  /\ PersistSettled(Head(discoverPersists), ok)
  /\ discoverPersists' = Tail(discoverPersists)
  /\ UNCHANGED <<tmdbDiscoverHistory, feedFilterState, runs, discovered, activeUserId,
                 prefsLoadedFor, localDiscoverState>>

\* loadPreferences for another user than the one loaded, cache.js 2030-2071
\* (first load, or refreshMoviesPanelForAuthChange, 5143-5172): the stored
\* state of a signed-in user is read from the store, otherwise, or when the
\* store fails, the local one; user is NoUser for nobody signed in
LoadPreferences(user, loadedFromRemote) ==
  /\ prefsLoadedFor # (IF user = NoUser THEN "anonymous" ELSE user)
  /\ user = NoUser => ~loadedFromRemote
  /\ hydrateTmdbDiscoverState(IF loadedFromRemote THEN remoteDiscoverState
                              ELSE localDiscoverState)
  /\ prefsLoadedFor' = (IF user = NoUser THEN "anonymous" ELSE user)
  /\ activeUserId' = (IF loadedFromRemote THEN user ELSE NoUser)
  /\ UNCHANGED <<tmdbDiscoverPersistTimer, feedFilterState, runs, discovered,
                 localDiscoverState, remoteDiscoverState, discoverPersists>>

\* the user changes a filter, cache.js 1857
SetFeedFilter(filter) ==
  /\ feedFilterState # filter
  /\ feedFilterState' = filter
  /\ UNCHANGED <<tmdbDiscoverHistory, tmdbDiscoverStateDirty,
                 tmdbDiscoverPersistTimer, runs, discovered, storeVars>>

\* nothing has run; the filters are the stored ones (cache.js 5030), and
\* no preferences are loaded yet
CursorStart(filter) ==
  /\ tmdbDiscoverHistory = <<>>
  /\ tmdbDiscoverStateDirty = FALSE
  /\ tmdbDiscoverPersistTimer = FALSE
  /\ feedFilterState = filter
  /\ runs = [id \in RunIds |-> NoRun]
  /\ discovered = NoResult
  /\ activeUserId = NoUser
  /\ prefsLoadedFor = NoUser
  /\ localDiscoverState = <<>>
  /\ remoteDiscoverState = <<>>
  /\ discoverPersists = <<>>

CursorInit == CursorStart(DEFAULT_FEED_FILTER_STATE)

(***************************************************************************)
(* Priority selection and merging of catalog items, cache.js 4026-4056 and *)
(* 4099-4137, as pure functions of a list of items.  A numeric field or an *)
(* id that is missing is NotANumber, a missing text is the empty string.   *)
(***************************************************************************)
CatalogItem(id, poster_path, overview, vote_average, vote_count, release_date,
            criticScores, directors, topCast, genre_ids) ==
  [id |-> id, poster_path |-> poster_path, overview |-> overview,
   vote_average |-> vote_average, vote_count |-> vote_count,
   release_date |-> release_date, criticScores |-> criticScores,
   directors |-> directors, topCast |-> topCast, genre_ids |-> genre_ids]

\* the items of the lists: three records of the same id (a poster only; a
\* rating and a vote count; an overview and a date), a record with credits,
\* genres and critic scores, a low-rated record, and a record without id
Catalog ==
  << CatalogItem(1, "/a.jpg", "", NotANumber, NotANumber, "", Null, <<>>, <<>>, <<>>),
     CatalogItem(1, "", "", 80, 100, "", Null, <<>>, <<>>, <<>>),
     CatalogItem(1, "", "A house flies.", NotANumber, NotANumber, "2009-05-29", Null,
                 <<>>, <<>>, <<>>),
     CatalogItem(2, "", "", 65, 30, "", Scores(Num(80)), <<"Cy">>, <<"Ann">>, <<18>>),
     CatalogItem(3, "", "", 60, 10, "", Null, <<>>, <<>>, <<>>),
     CatalogItem(NotANumber, "", "", 50, 5, "", Null, <<>>, <<>>, <<>>) >>

\* the longest list of the model
MaxList == 3
CatalogLists ==
  UNION {[1..n -> {Catalog[i] : i \in 1..Len(Catalog)}] : n \in 0..MaxList}

\* a score that counts one for each populated field
scoreMovieForMerge_Count(movie) ==
  (IF movie.poster_path # "" THEN 1 ELSE 0)
  + (IF movie.overview # "" THEN 1 ELSE 0)
  + (IF movie.vote_average # NotANumber THEN 1 ELSE 0)
  + (IF movie.vote_count # NotANumber THEN 1 ELSE 0)
  + (IF movie.release_date # "" THEN 1 ELSE 0)
  + (IF movie.criticScores # Null THEN 1 ELSE 0)
  + (IF Len(movie.directors) > 0 THEN 1 ELSE 0)
  + (IF Len(movie.topCast) > 0 THEN 1 ELSE 0)
  + (IF Len(movie.genre_ids) > 0 THEN 1 ELSE 0)

\* scoreMovieForMerge, cache.js 4099-4112
scoreMovieForMerge(movie) ==
  (IF movie.poster_path # "" THEN 3 ELSE 0)
  + (IF movie.overview # "" THEN 2 ELSE 0)
  + (IF movie.vote_average # NotANumber THEN 1 ELSE 0)
  + (IF movie.vote_count # NotANumber THEN 1 ELSE 0)
  + (IF movie.release_date # "" THEN 1 ELSE 0)
  + (IF movie.criticScores # Null THEN 1 ELSE 0)
  + (IF Len(movie.directors) > 0 THEN 1 ELSE 0)
  + (IF Len(movie.topCast) > 0 THEN 1 ELSE 0)
  + (IF Len(movie.genre_ids) > 0 THEN 1 ELSE 0)

\* a body of the forEach that never consults the seen map
DedupeEach_NoSeen(acc, movie) == [acc EXCEPT !.result = Append(@, movie)]

\* the body of the forEach of cache.js 4118-4135; seen maps a key to the
\* index and the score of the instance kept
DedupeEach(acc, movie) ==
  IF movie.id = NotANumber THEN [acc EXCEPT !.result = Append(@, movie)]
  ELSE LET key == NumToString(movie.id)
           score == scoreMovieForMerge(movie)
       IN IF key \notin DOMAIN acc.seen
          THEN [seen |-> [k \in DOMAIN acc.seen \cup {key} |->
                            IF k = key THEN [index |-> Len(acc.result) + 1,
                                             score |-> score]
                            ELSE acc.seen[k]],
                result |-> Append(acc.result, movie)]
          ELSE IF score > acc.seen[key].score
          THEN [seen |-> [acc.seen EXCEPT ![key].score = score],
                result |-> [acc.result EXCEPT ![acc.seen[key].index] = movie]]
          ELSE acc

RECURSIVE DedupeFrom(_, _)
DedupeFrom(acc, list) ==
  IF list = <<>> THEN acc.result
  ELSE DedupeFrom(DedupeEach(acc, Head(list)), Tail(list))

\* dedupeMoviesById, cache.js 4114-4137
dedupeMoviesById(list) ==
  IF list = <<>> THEN list
  ELSE DedupeFrom([seen |-> <<>>, result |-> <<>>], list)

VARIABLES
  movieList,     \* the list the functions are applied to
  candidates,    \* what selectPriorityCandidates returned for it
  deduped,       \* what dedupeMoviesById returned for it
  dedupedTwice   \* what dedupeMoviesById returned for the list followed by itself

mergeVars == <<movieList, candidates, deduped, dedupedTwice>>

NotCalled == [called |-> FALSE, value |-> <<>>]
ReturnedList(list) == [called |-> TRUE, value |-> list]

SelectCandidates ==
  /\ ~candidates.called
  /\ candidates' = ReturnedList(selectPriorityCandidates(movieList))
  /\ UNCHANGED <<movieList, deduped, dedupedTwice>>

Dedupe ==
  /\ ~deduped.called
  /\ deduped' = ReturnedList(dedupeMoviesById(movieList))
  /\ UNCHANGED <<movieList, candidates, dedupedTwice>>

DedupeTwice ==
  /\ ~dedupedTwice.called
  /\ dedupedTwice' = ReturnedList(dedupeMoviesById(movieList \o movieList))
  /\ UNCHANGED <<movieList, candidates, deduped>>

MergeStart(list) ==
  /\ movieList = list
  /\ candidates = NotCalled
  /\ deduped = NotCalled
  /\ dedupedTwice = NotCalled

MergeInit == \E list \in CatalogLists : MergeStart(list)
MergeIdle == MergeStart(<<>>)

(***************************************************************************)
(* The OMDb ratings prefetch of the server, server.js 532-540, 1194-1253,  *)
(* 1417-1594 and 2166-2236 (src/unnamed/part_001).  Of the counters of a   *)
(* run only networkRequests is kept; the OMDb key is configured.           *)
(***************************************************************************)
\* the catalog of ensureCatalog: for each movie the imdb id of its lookup, ""
\* where getOmdbLookupFromMovie gives none (part_001 1253-1270)
PrefetchCatalog == <<"tt1", "", "tt3">>
\* the least retryAfterMs (5 * 60 * 1000, part_001 1470-1473) and
\* OMDB_PREFETCH_DEFAULT_RETRY_AFTER_MS, scaled down
MIN_RETRY_AFTER_MS == 2
OMDB_PREFETCH_DEFAULT_RETRY_AFTER_MS == 3
OMDB_PREFETCH_DEFAULT_CHECKPOINT_EVERY == 2
\* null for a time
NoTime == 0 - 1

\* the options of a start request, part_001 2200-2227; 0 is a number left out
PrefetchOptions ==
  [restart : BOOLEAN, maxFetches : {0, 1}, checkpointEvery : {0}, retryAfterMs : {0, 1}]

\* what lookupAndCacheOmdbRatings resolves with, part_001 1282-1398
LookupResults ==
  { [outcome |-> "cache_hit", madeNetworkRequest |-> FALSE],
    [outcome |-> "fetched", madeNetworkRequest |-> TRUE],
    [outcome |-> "not_found", madeNetworkRequest |-> TRUE],
    [outcome |-> "rate_limited", madeNetworkRequest |-> TRUE],
    [outcome |-> "invalid_key", madeNetworkRequest |-> TRUE],
    [outcome |-> "request_failed", madeNetworkRequest |-> TRUE] }

VARIABLES
  omdbPrefetchRuntime,  \* part_001 532-540: running, stopRequested, progress, lastError
  prefetchRuns,         \* the async bodies of scheduleOmdbPrefetch that have not ended
  prefetchState,        \* the state loadOmdbPrefetchState reads
  prefetchHaltedOn,     \* the movie whose lookup halted the run that ended last, or 0
  prefetchReply         \* the status of the last answer of the admin route

prefetchVars ==
  <<omdbPrefetchRuntime, prefetchRuns, prefetchState, prefetchHaltedOn, prefetchReply>>

\* normalizePrefetchState, part_001 1194-1224, on the fields kept
normalizePrefetchState(raw) ==
  [cursor |-> IF raw.cursor >= 0 THEN raw.cursor ELSE 0,
   completedPasses |-> IF raw.completedPasses >= 0 THEN raw.completedPasses ELSE 0,
   haltedReason |-> raw.haltedReason,
   nextEligibleAt |-> raw.nextEligibleAt]
NoPrefetchState ==
  [cursor |-> 0, completedPasses |-> 0, haltedReason |-> "", nextEligibleAt |-> NoTime]

\* persistProgress up to its await, part_001 1479-1503: the state to save
persistProgress(run, pc, t) ==
  [run EXCEPT
     !.pc = pc,
     !.payload =
       [cursor |-> run.cursor, completedPasses |-> run.completedPasses,
        haltedReason |-> run.haltedReason,
        nextEligibleAt |-> IF run.haltedReason = "rate_limited"
                           THEN t + run.retryAfterMs ELSE NoTime]]

\* after the loop, part_001 1574-1580
PrefetchFinal(run, t) ==
  persistProgress(
    IF run.haltedReason = "" /\ run.cursor >= Len(PrefetchCatalog)
    THEN [run EXCEPT !.haltedReason = "completed_pass",
                     !.completedPasses = @ + 1, !.cursor = 0]
    ELSE run,
    "final", t)

\* the loop from its condition to the next await, part_001 1517-1537 and
\* 1565-1572: stop is omdbPrefetchRuntime.stopRequested
RECURSIVE PrefetchLoop(_, _, _)
PrefetchLoop(run, stop, t) ==
  IF run.cursor >= Len(PrefetchCatalog) THEN PrefetchFinal(run, t)
  ELSE IF stop THEN PrefetchFinal([run EXCEPT !.haltedReason = "stop_requested"], t)
  ELSE IF run.maxFetches > 0 /\ run.networkRequests >= run.maxFetches
  THEN PrefetchFinal([run EXCEPT !.haltedReason = "max_fetches_reached"], t)
  ELSE LET taken == [run EXCEPT !.cursor = @ + 1, !.checkpointCounter = @ + 1]
       IN IF PrefetchCatalog[run.cursor + 1] # ""
          THEN [taken EXCEPT !.pc = "lookup", !.lookups = Append(@, run.cursor + 1)]
          ELSE IF taken.checkpointCounter >= taken.checkpointEvery
          THEN persistProgress([taken EXCEPT !.checkpointCounter = 0], "checkpoint", t)
          ELSE PrefetchLoop(taken, stop, t)

\* an end of the loop body that goes on whatever stopRequested says
PrefetchAfterItem_IgnoresStop(run, stop, t) ==
  IF run.haltedReason # "" THEN PrefetchFinal(run, t)
  ELSE IF run.checkpointCounter >= run.checkpointEvery
  THEN persistProgress([run EXCEPT !.checkpointCounter = 0], "checkpoint", t)
  ELSE PrefetchLoop(run, FALSE, t)

\* the end of the loop body, part_001 1565-1572
PrefetchAfterItem(run, stop, t) ==
  IF run.haltedReason # "" THEN PrefetchFinal(run, t)
  ELSE IF run.checkpointCounter >= run.checkpointEvery
  THEN persistProgress([run EXCEPT !.checkpointCounter = 0], "checkpoint", t)
  ELSE PrefetchLoop(run, stop, t)

\* a loop body that counts a rate limited lookup as a failed one
PrefetchLooked_GoesOn(run, result, stop, t) ==
  LET counted == [run EXCEPT !.networkRequests =
                    IF result.madeNetworkRequest THEN @ + 1 ELSE @]
      halted == [counted EXCEPT !.haltedReason =
                   IF result.outcome = "invalid_key" THEN "invalid_omdb_key" ELSE @]
  IN IF result.madeNetworkRequest /\ halted.haltedReason = ""
     THEN [halted EXCEPT !.pc = "wait"]
     ELSE PrefetchAfterItem(halted, stop, t)

\* the loop body once the lookup has resolved, part_001 1538-1563
PrefetchLooked(run, result, stop, t) ==
  LET counted == [run EXCEPT !.networkRequests =
                    IF result.madeNetworkRequest THEN @ + 1 ELSE @]
      halted == [counted EXCEPT !.haltedReason =
                   IF result.outcome = "rate_limited" THEN "rate_limited"
                   ELSE IF result.outcome = "invalid_key" THEN "invalid_omdb_key"
                   ELSE @]
  IN IF result.madeNetworkRequest /\ halted.haltedReason = ""
     THEN [halted EXCEPT !.pc = "wait"]
     ELSE PrefetchAfterItem(halted, stop, t)

\* the async body up to the loop, part_001 1429-1515, once the state and the
\* catalog have come
PrefetchLoaded(run, persisted, stop, t) ==
  PrefetchLoop(
    [run EXCEPT
       !.cursor = IF run.restart THEN 0
                  ELSE IF persisted.cursor < Len(PrefetchCatalog) THEN persisted.cursor
                  ELSE Len(PrefetchCatalog),
       !.first = IF run.restart THEN 0
                 ELSE IF persisted.cursor < Len(PrefetchCatalog) THEN persisted.cursor
                 ELSE Len(PrefetchCatalog),
       !.completedPasses = persisted.completedPasses],
    stop, t)

\* a new async body, part_001 1430-1476
NewPrefetchRun(options, resumedAfter) ==
  [pc |-> "load", restart |-> options.restart,
   maxFetches |-> options.maxFetches,
   checkpointEvery |-> IF options.checkpointEvery > 0 THEN options.checkpointEvery
                       ELSE OMDB_PREFETCH_DEFAULT_CHECKPOINT_EVERY,
   retryAfterMs |-> Max(MIN_RETRY_AFTER_MS,
                        IF options.retryAfterMs > 0 THEN options.retryAfterMs
                        ELSE OMDB_PREFETCH_DEFAULT_RETRY_AFTER_MS),
   cursor |-> 0, first |-> 0 - 1, completedPasses |-> 0, networkRequests |-> 0,
   checkpointCounter |-> 0, haltedReason |-> "", payload |-> NoPrefetchState,
   lookups |-> <<>>, resumedAfter |-> resumedAfter, stopSeen |-> FALSE]

\* a start that does not look at the running flag
PrefetchStartRequest_Unguarded(options) ==
  /\ omdbPrefetchRuntime' =
       [omdbPrefetchRuntime EXCEPT !.running = TRUE, !.stopRequested = FALSE,
                                   !.progress = NoPrefetchState, !.lastError = FALSE]
  /\ prefetchRuns' = Append(prefetchRuns, NewPrefetchRun(options, prefetchHaltedOn))
  /\ prefetchReply' = 202
  /\ UNCHANGED <<prefetchState, prefetchHaltedOn>>

\* POST /api/admin/prefetch-movie-ratings with a valid token and no stop,
\* part_001 2192-2236, and scheduleOmdbPrefetch up to its async body,
\* 1417-1428
PrefetchStartRequest(options) ==
  IF omdbPrefetchRuntime.running
  THEN /\ prefetchReply' = 409
       /\ UNCHANGED <<omdbPrefetchRuntime, prefetchRuns, prefetchState, prefetchHaltedOn>>
  ELSE /\ omdbPrefetchRuntime' =
            [omdbPrefetchRuntime EXCEPT !.running = TRUE, !.stopRequested = FALSE,
                                        !.progress = NoPrefetchState, !.lastError = FALSE]
       /\ prefetchRuns' = Append(prefetchRuns, NewPrefetchRun(options, prefetchHaltedOn))
       /\ prefetchReply' = 202
       /\ UNCHANGED <<prefetchState, prefetchHaltedOn>>

\* the same route with stop, part_001 2177-2190
PrefetchStopRequest ==
  /\ omdbPrefetchRuntime' =
       [omdbPrefetchRuntime EXCEPT !.stopRequested = (@ \/ omdbPrefetchRuntime.running)]
  /\ prefetchRuns' =
       [i \in 1..Len(prefetchRuns) |-> [prefetchRuns[i] EXCEPT !.stopSeen = TRUE]]
  /\ prefetchReply' = 200
  /\ UNCHANGED <<prefetchState, prefetchHaltedOn>>

\* a step of the async body i leaves it at its next await; persistProgress
\* has set the progress of the runtime when that await is a save
PrefetchRunBecomes(i, run) ==
  /\ prefetchRuns' = [prefetchRuns EXCEPT ![i] = run]
  /\ omdbPrefetchRuntime' =
       [omdbPrefetchRuntime EXCEPT
          !.progress = IF run.pc \in {"checkpoint", "final"} THEN run.payload ELSE @]

\* the async body ends: .catch and .finally, part_001 1581-1591
PrefetchRunEnds(i, failed, haltedOn) ==
  /\ prefetchRuns' = SubSeq(prefetchRuns, 1, i - 1)
                       \o SubSeq(prefetchRuns, i + 1, Len(prefetchRuns))
  /\ omdbPrefetchRuntime' =
       [omdbPrefetchRuntime EXCEPT !.running = FALSE, !.stopRequested = FALSE,
                                   !.lastError = (@ \/ failed)]
  /\ prefetchHaltedOn' = haltedOn

\* loadOmdbPrefetchState and ensureCatalog settle, part_001 1430-1436;
\* ensureCatalog gives the catalog or rejects
PrefetchLoads(i, outcome) ==
  /\ i \in 1..Len(prefetchRuns)
  /\ prefetchRuns[i].pc = "load"
  /\ IF outcome = "throws"
     THEN /\ PrefetchRunEnds(i, TRUE, 0)
          /\ UNCHANGED <<prefetchState, prefetchReply>>
     ELSE /\ PrefetchRunBecomes(i, PrefetchLoaded(prefetchRuns[i],
                                      normalizePrefetchState(prefetchState),
                                      omdbPrefetchRuntime.stopRequested, now))
          /\ UNCHANGED <<prefetchState, prefetchHaltedOn, prefetchReply>>

\* the lookup of the movie in hand resolves, part_001 1538-1563
PrefetchLookupSettles(i, result) ==
  /\ i \in 1..Len(prefetchRuns)
  /\ prefetchRuns[i].pc = "lookup"
  /\ PrefetchRunBecomes(i, PrefetchLooked(prefetchRuns[i], result,
                                          omdbPrefetchRuntime.stopRequested, now))
  /\ UNCHANGED <<prefetchState, prefetchHaltedOn, prefetchReply>>

\* the wait between two lookups is over, part_001 1559-1572
PrefetchWaitEnds(i) ==
  /\ i \in 1..Len(prefetchRuns)
  /\ prefetchRuns[i].pc = "wait"
  /\ PrefetchRunBecomes(i, PrefetchAfterItem(prefetchRuns[i],
                                             omdbPrefetchRuntime.stopRequested, now))
  /\ UNCHANGED <<prefetchState, prefetchHaltedOn, prefetchReply>>

\* saveOmdbPrefetchState settles, part_001 1243-1251: the state is stored, or
\* the write failed and safeWriteCachedResponse swallowed it; after a
\* checkpoint the loop goes on, after the last save the body ends
PrefetchSaveSettles(i, stored) ==
  /\ i \in 1..Len(prefetchRuns)
  /\ prefetchRuns[i].pc \in {"checkpoint", "final"}
  /\ prefetchState' = IF stored THEN normalizePrefetchState(prefetchRuns[i].payload)
                      ELSE prefetchState
  /\ IF prefetchRuns[i].pc = "checkpoint"
     THEN /\ PrefetchRunBecomes(i, PrefetchLoop(prefetchRuns[i],
                                                omdbPrefetchRuntime.stopRequested, now))
          /\ UNCHANGED <<prefetchHaltedOn, prefetchReply>>
     ELSE /\ PrefetchRunEnds(i, FALSE,
               IF prefetchRuns[i].haltedReason \in {"rate_limited", "invalid_omdb_key"}
                    /\ stored
               THEN prefetchRuns[i].lookups[Len(prefetchRuns[i].lookups)]
               ELSE 0)
          /\ UNCHANGED prefetchReply

PrefetchInit ==
  /\ omdbPrefetchRuntime = [running |-> FALSE, stopRequested |-> FALSE,
                            progress |-> NoPrefetchState, lastError |-> FALSE]
  /\ prefetchRuns = <<>>
  /\ prefetchState = NoPrefetchState
  /\ prefetchHaltedOn = 0
  /\ prefetchReply = 0

(***************************************************************************)
(* GET /api/movies of the server, server.js 1981-2115 and 983-991          *)
(* (src/unnamed/part_001).  The handler keeps no state between requests:   *)
(* the variables hold the last request and what the handler did for it.    *)
(***************************************************************************)
\* a query parameter that is not given
NotGiven == "<absent>"
\* the values of a flag parameter, trimmed and in lower case already
FlagValues == {NotGiven, "1", "0", "maybe", ""}

\* parseBooleanQuery, part_001 983-991
parseBooleanQuery(value) ==
  IF value = NotGiven THEN FALSE
  ELSE IF value = "" THEN FALSE
  ELSE IF value \in {"1", "true", "yes", "on"} THEN TRUE
  ELSE IF value \in {"0", "false", "no", "off"} THEN FALSE
  ELSE TRUE

\* a ?? b
Coalesce(a, b) == IF a # NotGiven THEN a ELSE b

\* the queries of the model: q, the three names of cacheOnly, includeFresh,
\* freshOnly, scope and refresh
MoviesQueries ==
  [q : {"", "x"}, cacheOnly : FlagValues, cache : {NotGiven, "1"}, cache_only : {NotGiven, "1"},
   includeFresh : {NotGiven, "1"}, freshOnly : {NotGiven, "1"}, scope : {NotGiven, "new"},
   refresh : {NotGiven, "1"}]

\* what the collaborators of one request do: whether the snapshot has a
\* match for the query, whether it is there and fresh, whether TMDB
\* credentials are configured, whether ensureCatalog throws (a throw of
\* fetchNewReleases is caught and changes neither the calls nor the status)
MoviesWorlds ==
  [matches : BOOLEAN, snapshotFresh : BOOLEAN, hasCredentials : BOOLEAN,
   catalogThrows : BOOLEAN]

VARIABLES
  moviesQuery,     \* req.query of the last request
  moviesCalls,     \* the calls to movieCatalog the handler made for it
  moviesUpstream,  \* the upstream calls made for it
  moviesStatus     \* the status of the answer, 0 before the first request

moviesVars == <<moviesQuery, moviesCalls, moviesUpstream, moviesStatus>>

\* movieCatalog.ensureCatalog, not part of the sources: with cacheOnly it
\* serves the snapshot it has and makes no upstream call; otherwise it
\* fetches when asked to refresh or when it has no fresh snapshot
ensureCatalogFetches(options, world) ==
  ~options.cacheOnly /\ (options.forceRefresh \/ ~world.snapshotFresh)

\* a handler that passes refresh and the fresh flags on as the query gives them
MoviesHandler_FlagsAsGiven(query, world) ==
  LET cacheOnly == parseBooleanQuery(
                     Coalesce(query.cacheOnly, Coalesce(query.cache, query.cache_only)))
      includeFresh == parseBooleanQuery(query.includeFresh)
      freshOnly == parseBooleanQuery(query.freshOnly) \/ query.scope = "new"
      forceRefresh == parseBooleanQuery(query.refresh)
      ensure == [name |-> "ensureCatalog", forceRefresh |-> forceRefresh,
                 cacheOnly |-> cacheOnly]
      curatedResults == IF freshOnly \/ ~world.matches THEN 0 ELSE 1
      shouldFetchFresh == freshOnly \/ includeFresh \/ (curatedResults = 0 /\ query.q # "")
      fresh == [name |-> "fetchNewReleases", forceRefresh |-> FALSE, cacheOnly |-> FALSE]
  IN IF world.catalogThrows
     THEN [calls |-> <<ensure>>, upstream |-> 0, status |-> 500]
     ELSE [calls |-> IF shouldFetchFresh /\ world.hasCredentials
                     THEN <<ensure, fresh>> ELSE <<ensure>>,
           upstream |-> (IF ensureCatalogFetches(ensure, world) THEN 1 ELSE 0)
                          + (IF shouldFetchFresh /\ world.hasCredentials THEN 1 ELSE 0),
           status |-> 200]

\* the handler, part_001 1981-2115: the calls it makes and its status
MoviesHandler(query, world) ==
  LET cacheOnly == parseBooleanQuery(
                     Coalesce(query.cacheOnly, Coalesce(query.cache, query.cache_only)))
      includeFresh == IF cacheOnly THEN FALSE ELSE parseBooleanQuery(query.includeFresh)
      freshOnly == IF cacheOnly THEN FALSE
                   ELSE parseBooleanQuery(query.freshOnly) \/ query.scope = "new"
      forceRefresh == parseBooleanQuery(query.refresh)
      ensure == [name |-> "ensureCatalog",
                 forceRefresh |-> IF cacheOnly THEN FALSE ELSE forceRefresh,
                 cacheOnly |-> cacheOnly]
      curatedResults == IF freshOnly \/ ~world.matches THEN 0 ELSE 1
      shouldFetchFresh ==
        ~cacheOnly /\ (freshOnly \/ includeFresh \/ (curatedResults = 0 /\ query.q # ""))
      fresh == [name |-> "fetchNewReleases", forceRefresh |-> FALSE, cacheOnly |-> FALSE]
  IN IF world.catalogThrows
     THEN [calls |-> <<ensure>>, upstream |-> 0, status |-> 500]
     ELSE [calls |-> IF shouldFetchFresh /\ world.hasCredentials
                     THEN <<ensure, fresh>> ELSE <<ensure>>,
           upstream |-> (IF ensureCatalogFetches(ensure, world) THEN 1 ELSE 0)
                          + (IF shouldFetchFresh /\ world.hasCredentials THEN 1 ELSE 0),
           status |-> 200]

\* a request is handled; requests share no state, so the model takes them
\* one at a time
MoviesRequest(query, world) ==
  /\ moviesStatus = 0
  /\ \E r \in {MoviesHandler(query, world)} :
       /\ moviesQuery' = query
       /\ moviesCalls' = r.calls
       /\ moviesUpstream' = r.upstream
       /\ moviesStatus' = r.status

\* the query with no parameter
NoQuery ==
  [q |-> "", cacheOnly |-> NotGiven, cache |-> NotGiven, cache_only |-> NotGiven,
   includeFresh |-> NotGiven, freshOnly |-> NotGiven, scope |-> NotGiven,
   refresh |-> NotGiven]

\* the answer has gone out
MoviesAnswered ==
  /\ moviesStatus # 0
  /\ moviesQuery' = NoQuery
  /\ moviesCalls' = <<>>
  /\ moviesUpstream' = 0
  /\ moviesStatus' = 0

MoviesInit ==
  /\ moviesQuery = NoQuery
  /\ moviesCalls = <<>>
  /\ moviesUpstream = 0
  /\ moviesStatus = 0

(***************************************************************************)
(* The auth callback of the page, main.js 80-102 and 346-401               *)
(* (src/unnamed/part_001): each invocation runs to its next await.         *)
(***************************************************************************)
\* invocations of the callback that may be in progress together
MaxCallbacks == 2

VARIABLES
  moviesPanel,                       \* whether the page has a movies panel
  hasHandledInitialMoviesAuthState,
  lastAuthMoviesUserId,
  moviesPanelInitialized,
  hiddenTabsTimer,                   \* whether the interval is set
  tabsVisible,                       \* tabsContainer made visible
  authCallbacks                      \* the invocations that have not ended

authVars ==
  <<moviesPanel, hasHandledInitialMoviesAuthState, lastAuthMoviesUserId,
    moviesPanelInitialized, hiddenTabsTimer, tabsVisible, authCallbacks>>

\* an invocation: its user, the await it is in, and how often it has called
\* loadDecisions
Callback(user, pc) == [user |-> user, pc |-> pc, loadDecisions |-> 0]

WithoutCallback(i) ==
  SubSeq(authCallbacks, 1, i - 1) \o SubSeq(authCallbacks, i + 1, Len(authCallbacks))

\* initAuth calls the callback, part_001 346-363, up to its first await
AuthCallbackInvoked(user) ==
  /\ Len(authCallbacks) < MaxCallbacks
  /\ IF moviesPanel /\ ~hasHandledInitialMoviesAuthState
     THEN /\ hasHandledInitialMoviesAuthState' = TRUE
          /\ lastAuthMoviesUserId' = user
          /\ authCallbacks' = Append(authCallbacks,
               Callback(user, IF moviesPanelInitialized THEN "tabs" ELSE "init"))
     ELSE /\ authCallbacks' = Append(authCallbacks,
               Callback(user, IF user # lastAuthMoviesUserId THEN "refresh" ELSE "tabs"))
          /\ UNCHANGED <<hasHandledInitialMoviesAuthState, lastAuthMoviesUserId>>
  /\ UNCHANGED <<moviesPanel, moviesPanelInitialized, hiddenTabsTimer, tabsVisible>>

\* ensureMoviesPanelInitialized or the refresh for the auth change settles,
\* part_001 86-101 and 351-363: a failure of either is caught
AuthMoviesSettles(i, ok) ==
  /\ i \in 1..Len(authCallbacks)
  /\ authCallbacks[i].pc \in {"init", "refresh"}
  /\ moviesPanelInitialized' =
       IF authCallbacks[i].pc = "init" /\ ok THEN TRUE ELSE moviesPanelInitialized
  /\ lastAuthMoviesUserId' =
       IF authCallbacks[i].pc = "refresh" THEN authCallbacks[i].user
       ELSE lastAuthMoviesUserId
  /\ authCallbacks' = [authCallbacks EXCEPT ![i].pc = "tabs"]
  /\ UNCHANGED <<moviesPanel, hasHandledInitialMoviesAuthState, hiddenTabsTimer,
                 tabsVisible>>

\* a callback that goes on to the decisions whoever the user is
AuthHiddenTabsSettles_NoReturn(i, ok) ==
  /\ i \in 1..Len(authCallbacks)
  /\ authCallbacks[i].pc = "tabs"
  /\ IF ~ok
     THEN /\ authCallbacks' = WithoutCallback(i)
          /\ UNCHANGED <<hiddenTabsTimer, tabsVisible>>
     ELSE /\ hiddenTabsTimer' = TRUE
          /\ authCallbacks' = [authCallbacks EXCEPT ![i].pc = "decisions",
                                                    ![i].loadDecisions = @ + 1]
          /\ UNCHANGED tabsVisible
  /\ UNCHANGED <<moviesPanel, hasHandledInitialMoviesAuthState, lastAuthMoviesUserId,
                 moviesPanelInitialized>>

\* loadHiddenTabs settles, part_001 366-393: without a user the callback
\* returns here, with one it calls loadDecisions(true); a rejection ends the
\* callback
AuthHiddenTabsSettles(i, ok) ==
  /\ i \in 1..Len(authCallbacks)
  /\ authCallbacks[i].pc = "tabs"
  /\ IF ~ok
     THEN /\ authCallbacks' = WithoutCallback(i)
          /\ UNCHANGED <<hiddenTabsTimer, tabsVisible>>
     ELSE IF authCallbacks[i].user = NoUser
     THEN /\ hiddenTabsTimer' = TRUE
          /\ tabsVisible' = TRUE
          /\ authCallbacks' = WithoutCallback(i)
     ELSE /\ hiddenTabsTimer' = TRUE
          /\ authCallbacks' = [authCallbacks EXCEPT ![i].pc = "decisions",
                                                    ![i].loadDecisions = @ + 1]
          /\ UNCHANGED tabsVisible
  /\ UNCHANGED <<moviesPanel, hasHandledInitialMoviesAuthState, lastAuthMoviesUserId,
                 moviesPanelInitialized>>

\* loadDecisions settles, part_001 393-400: after the first the callback
\* calls it again for the backup, after the second it ends
AuthDecisionsSettles(i, ok) ==
  /\ i \in 1..Len(authCallbacks)
  /\ authCallbacks[i].pc \in {"decisions", "backup"}
  /\ IF ~ok \/ authCallbacks[i].pc = "backup"
     THEN /\ authCallbacks' = WithoutCallback(i)
          /\ UNCHANGED tabsVisible
     ELSE /\ tabsVisible' = TRUE
          /\ authCallbacks' = [authCallbacks EXCEPT ![i].pc = "backup",
                                                    ![i].loadDecisions = @ + 1]
  /\ UNCHANGED <<moviesPanel, hasHandledInitialMoviesAuthState, lastAuthMoviesUserId,
                 moviesPanelInitialized, hiddenTabsTimer>>

AuthStart(panel) ==
  /\ moviesPanel = panel
  /\ hasHandledInitialMoviesAuthState = FALSE
  /\ lastAuthMoviesUserId = NoUser
  /\ moviesPanelInitialized = FALSE
  /\ hiddenTabsTimer = FALSE
  /\ tabsVisible = FALSE
  /\ authCallbacks = <<>>
AuthIdle == AuthStart(TRUE)
AuthInit == \E panel \in BOOLEAN : AuthStart(panel)

(***************************************************************************)
(* The catalog stats of the server, cache.js 363-365, 1581-1638, 1771-1780 *)
(* and 5157-5159.                                                          *)
(***************************************************************************)
\* stats requests that may be in flight together
MaxStatsRequests == 2
StatsRequestIds == 1..(MaxStatsRequests + 1)
\* the stamps of lastCatalogMetadata and the movies a user may have classified
CatalogStamps == {"", "t1"}
ClassifiableIds == {7}
\* null, and no request
NoStats == <<>>
NoStatsRequest == 0

VARIABLES
  catalogStamp,                     \* catalogUpdatedAt of lastCatalogMetadata
  classifiedIds,                    \* getClassifiedMovieIds()
  serverMovieStats,                 \* the signature whose stats are held, or null
  lastFetchedMovieStatsSignature,
  pendingMovieStatsPromise,         \* the request context held, or none
  statsRequests,                    \* the signature of each request in flight
  statsRequested                    \* the signature of the request issued last

statsVars ==
  <<catalogStamp, classifiedIds, serverMovieStats, lastFetchedMovieStatsSignature,
    pendingMovieStatsPromise, statsRequests, statsRequested>>

\* computeMovieStatsSignature, cache.js 1581-1590: the stamp and the ids
computeMovieStatsSignature(stamp, ids) == <<stamp, ids>>

StatsState(stats, last, pending, requests, requested) ==
  [serverMovieStats |-> stats, lastFetchedMovieStatsSignature |-> last,
   pendingMovieStatsPromise |-> pending, statsRequests |-> requests,
   statsRequested |-> requested]
StatsNow ==
  StatsState(serverMovieStats, lastFetchedMovieStatsSignature,
             pendingMovieStatsPromise, statsRequests, statsRequested)

\* ensureServerMovieStats, cache.js 1592-1638, on a state of the five
ensureServerMovieStats(s, signature) ==
  IF s.serverMovieStats # NoStats /\ s.lastFetchedMovieStatsSignature = signature
  THEN s
  ELSE IF /\ s.pendingMovieStatsPromise # NoStatsRequest
          /\ s.statsRequests[s.pendingMovieStatsPromise] = signature
  THEN s
  ELSE LET id == CHOOSE i \in StatsRequestIds :
                   /\ s.statsRequests[i] = NoStats
                   /\ \A j \in StatsRequestIds : s.statsRequests[j] = NoStats => i <= j
       IN [s EXCEPT !.statsRequests[id] = signature,
                    !.pendingMovieStatsPromise = id,
                    !.statsRequested = signature]

\* .finally of a request, cache.js 1630-1634
StatsFinally(s, id) ==
  [s EXCEPT !.statsRequests[id] = NoStats,
            !.pendingMovieStatsPromise = IF @ = id THEN NoStatsRequest ELSE @]

\* the request id settles, cache.js 1612-1634: .then installs the data and
\* calls updateMovieStats, which calls ensureServerMovieStats (1776); .catch
\* forgets the signature when it is the one fetched last
StatsSettled(s, id, ok, signature) ==
  IF ok
  THEN StatsFinally(
         ensureServerMovieStats(
           [s EXCEPT !.serverMovieStats = s.statsRequests[id],
                     !.lastFetchedMovieStatsSignature = s.statsRequests[id]],
           signature),
         id)
  ELSE StatsFinally(
         [s EXCEPT !.lastFetchedMovieStatsSignature =
                     IF @ = s.statsRequests[id] THEN NoStats ELSE @],
         id)

StatsBecomes(s) ==
  /\ serverMovieStats' = s.serverMovieStats
  /\ lastFetchedMovieStatsSignature' = s.lastFetchedMovieStatsSignature
  /\ pendingMovieStatsPromise' = s.pendingMovieStatsPromise
  /\ statsRequests' = s.statsRequests
  /\ statsRequested' = s.statsRequested

InFlightStats == {i \in StatsRequestIds : statsRequests[i] # NoStats}

\* the catalog metadata or the classified movies change and the stats are
\* rendered anew: updateMovieStats, cache.js 1771-1780
UpdateMovieStats(stamp, ids) ==
  /\ Cardinality(InFlightStats) < MaxStatsRequests
  /\ catalogStamp' = stamp
  /\ classifiedIds' = ids
  /\ StatsBecomes(ensureServerMovieStats(StatsNow, computeMovieStatsSignature(stamp, ids)))

\* a stats request settles
StatsResponse(id, ok) ==
  /\ id \in InFlightStats
  /\ StatsBecomes(StatsSettled(StatsNow, id, ok,
                               computeMovieStatsSignature(catalogStamp, classifiedIds)))
  /\ UNCHANGED <<catalogStamp, classifiedIds>>

\* refreshMoviesPanelForAuthChange drops the stats, cache.js 5157-5159; the
\* requests in flight stay in flight
StatsAuthChange ==
  /\ serverMovieStats' = NoStats
  /\ pendingMovieStatsPromise' = NoStatsRequest
  /\ lastFetchedMovieStatsSignature' = NoStats
  /\ UNCHANGED <<catalogStamp, classifiedIds, statsRequests, statsRequested>>

StatsInit ==
  /\ catalogStamp = ""
  /\ classifiedIds = {}
  /\ serverMovieStats = NoStats
  /\ lastFetchedMovieStatsSignature = NoStats
  /\ pendingMovieStatsPromise = NoStatsRequest
  /\ statsRequests = [i \in StatsRequestIds |-> NoStats]
  /\ statsRequested = NoStats

(***************************************************************************)
(* loadPreferences with its awaits, cache.js 2029-2071, under              *)
(* refreshMoviesPanelForAuthChange, 5143-5172: a load is at awaitAuthUser  *)
(* or at the get of the user's document.                                   *)
(***************************************************************************)
\* loads that may be in progress together
MaxLoads == 2
LoadIds == 1..MaxLoads
NoLoad == [pc |-> "none", user |-> NoUser]
NoPromise == 0

VARIABLES
  currentUser,          \* getCurrentUser(), NoUser when nobody is signed in
  currentPrefs,         \* whose preferences are held: a user, "anonymous" for
                        \* the local ones, NoUser for none
  loadingPrefsPromise,  \* the load whose promise is held, or none
  prefLoads             \* the loads in progress

loadVars == <<currentUser, currentPrefs, loadingPrefsPromise, prefLoads>>

\* the variables of the cursor a load leaves alone
notLoadedVars ==
  <<tmdbDiscoverPersistTimer, feedFilterState, runs, discovered, localDiscoverState,
    remoteDiscoverState, discoverPersists>>

PrefsKey(user) == IF user = NoUser THEN "anonymous" ELSE user

\* a load ends: the .finally of its promise, cache.js 2069-2071
LoadEnds(id) ==
  /\ prefLoads' = [prefLoads EXCEPT ![id] = NoLoad]
  /\ loadingPrefsPromise' = NoPromise

\* the end of the async body, cache.js 2058-2068
LoadCompletes(id, user, loadedFromRemote) ==
  /\ hydrateTmdbDiscoverState(IF loadedFromRemote THEN remoteDiscoverState
                              ELSE localDiscoverState)
  /\ prefsLoadedFor' = PrefsKey(user)
  /\ currentPrefs' = (IF loadedFromRemote THEN user ELSE "anonymous")
  /\ activeUserId' = (IF loadedFromRemote THEN user ELSE NoUser)
  /\ LoadEnds(id)

\* the auth state changes to user and refreshMoviesPanelForAuthChange(user)
\* runs to its await of loadPreferences(), cache.js 5143-5171 and 2029-2032;
\* the panel is initialised
AuthChange(user) ==
  /\ user # currentUser
  /\ \E id \in LoadIds : prefLoads[id] = NoLoad
  /\ currentUser' = user
  /\ IF prefsLoadedFor = PrefsKey(user)
     THEN UNCHANGED <<prefsLoadedFor, activeUserId, loadingPrefsPromise, prefLoads,
                      statsVars>>
     ELSE /\ prefsLoadedFor' = NoUser
          /\ activeUserId' = NoUser
          /\ StatsAuthChange
          /\ \E id \in LoadIds :
               /\ prefLoads[id] = NoLoad
               /\ \A other \in LoadIds : prefLoads[other] = NoLoad => id <= other
               /\ prefLoads' = [prefLoads EXCEPT ![id] = [pc |-> "auth", user |-> NoUser]]
               /\ loadingPrefsPromise' = id
  /\ UNCHANGED <<currentPrefs, tmdbDiscoverHistory, tmdbDiscoverStateDirty, notLoadedVars>>

\* awaitAuthUser settles, cache.js 2032-2044 and, without a user, 2058-2068
LoadAuthKnown(id) ==
  /\ prefLoads[id].pc = "auth"
  /\ IF prefsLoadedFor = PrefsKey(currentUser)
     THEN /\ LoadEnds(id)
          /\ UNCHANGED <<prefsLoadedFor, currentPrefs, activeUserId, tmdbDiscoverHistory,
                         tmdbDiscoverStateDirty>>
     ELSE IF currentUser # NoUser
     THEN /\ prefLoads' = [prefLoads EXCEPT ![id] = [pc |-> "get", user |-> currentUser]]
          /\ UNCHANGED <<prefsLoadedFor, currentPrefs, activeUserId, tmdbDiscoverHistory,
                         tmdbDiscoverStateDirty, loadingPrefsPromise>>
     ELSE LoadCompletes(id, NoUser, FALSE)
  /\ UNCHANGED <<currentUser, notLoadedVars, statsVars>>

\* the get of the user's document settles, cache.js 2042-2068
LoadGetSettles(id, ok) ==
  /\ prefLoads[id].pc = "get"
  /\ LoadCompletes(id, prefLoads[id].user, ok)
  /\ UNCHANGED <<currentUser, notLoadedVars, statsVars>>

LoadInit ==
  /\ currentUser = NoUser
  /\ currentPrefs = NoUser
  /\ loadingPrefsPromise = NoPromise
  /\ prefLoads = [id \in LoadIds |-> NoLoad]

\* the variables of the later components
moreVars == <<prefetchVars, moviesVars, authVars, statsVars, loadVars>>
MoreIdle == PrefetchInit /\ MoviesInit /\ AuthIdle /\ StatsInit /\ LoadInit
\* and those of all components but one
notPrefetchVars ==
  <<cacheVars, keyVars, proxyVars, queueVars, cursorVars, mergeVars, moviesVars, authVars,
    statsVars, loadVars>>
notMoviesVars ==
  <<cacheVars, keyVars, proxyVars, queueVars, cursorVars, mergeVars, prefetchVars,
    authVars, statsVars, loadVars>>
notAuthVars ==
  <<cacheVars, keyVars, proxyVars, queueVars, cursorVars, mergeVars, prefetchVars,
    moviesVars, statsVars, loadVars>>
notStatsVars ==
  <<cacheVars, keyVars, proxyVars, queueVars, cursorVars, mergeVars, prefetchVars,
    moviesVars, authVars, loadVars>>
\* all but the cursor, the stats and the loads
notLoadVars ==
  <<cacheVars, keyVars, proxyVars, queueVars, mergeVars, prefetchVars, moviesVars,
    authVars>>

(***************************************************************************)
(* The specifications: one per component; the variables of the other       *)
(* components keep their initial values.                                   *)
(***************************************************************************)
vars == <<cacheVars, keyVars, proxyVars, queueVars, cursorVars, mergeVars, moreVars>>

CacheRead ==
  /\ \E c \in Collections, k \in CacheKeyIds, ttlMs \in Ttls, db \in DbOutcomes :
       Read(c, k, ttlMs, db)
  /\ UNCHANGED <<keyVars, proxyVars, queueVars, cursorVars, mergeVars, moreVars>>

CacheWrite ==
  /\ \E c \in Collections, k \in CacheKeyIds, payload \in Payloads, db \in DbOutcomes :
       Write(c, k, payload, db)
  /\ UNCHANGED <<keyVars, proxyVars, queueVars, cursorVars, mergeVars, moreVars>>

\* the store is in one condition for the two calls of the pair; a store that
\* changes between them is a CacheWrite step followed by a CacheRead step
CacheWriteThenRead ==
  /\ \E c \in Collections, k \in CacheKeyIds, payload \in Payloads,
        db \in DbOutcomes, ttlMs \in Ttls :
       WriteThenRead(c, k, payload, db, ttlMs, db)
  /\ UNCHANGED <<keyVars, proxyVars, queueVars, cursorVars, mergeVars, moreVars>>

CacheTick == Tick /\ UNCHANGED <<keyVars, proxyVars, queueVars, cursorVars, mergeVars, moreVars>>

\* the cache under arbitrary callers
Init == CacheInit /\ KeyIdle /\ ProxyInit /\ QueueIdle /\ CursorInit /\ MergeIdle /\ MoreIdle
Next == CacheRead \/ CacheWrite \/ CacheWriteThenRead \/ CacheTick
Spec == Init /\ [][Next]_vars

KeyReorder == (\E i \in 1..MaxParams : Reorder(i)) /\ UNCHANGED <<cacheVars, proxyVars, queueVars, cursorVars, mergeVars, moreVars>>
KeySetCredential == (\E v \in CredentialValues : SetCredential(v)) /\ UNCHANGED <<cacheVars, proxyVars, queueVars, cursorVars, mergeVars, moreVars>>
KeyDeleteCredential == DeleteCredential /\ UNCHANGED <<cacheVars, proxyVars, queueVars, cursorVars, mergeVars, moreVars>>
KeyDeriveKeys == DeriveKeys /\ UNCHANGED <<cacheVars, proxyVars, queueVars, cursorVars, mergeVars, moreVars>>

\* key derivation on bounded queries
KeySpecInit == KeyInit /\ CacheIdle /\ ProxyInit /\ QueueIdle /\ CursorInit /\ MergeIdle /\ MoreIdle
KeySpecNext == KeyReorder \/ KeySetCredential \/ KeyDeleteCredential \/ KeyDeriveKeys
KeySpec == KeySpecInit /\ [][KeySpecNext]_vars

ProxyTmdbRequest ==
  /\ \E i \in TmdbRequests : TmdbProxyRequest(i.dbr, i.up, i.dbw)
  /\ UNCHANGED <<keyVars, queueVars, cursorVars, mergeVars, moreVars>>

ProxyLookupOmdb ==
  /\ \E i \in OmdbLookups : LookupOmdb(i.apiKey, i.forceRefresh, i.dbr, i.up, i.dbw)
  /\ UNCHANGED <<keyVars, queueVars, cursorVars, mergeVars, moreVars>>

ProxyTick == Tick /\ UNCHANGED <<keyVars, proxyVars, queueVars, cursorVars, mergeVars, moreVars>>

\* the two callers over the cache
ProxySpecInit == CacheInit /\ KeyIdle /\ ProxyInit /\ QueueIdle /\ CursorInit /\ MergeIdle /\ MoreIdle
ProxySpecNext == ProxyTmdbRequest \/ ProxyLookupOmdb \/ ProxyTick
ProxySpec == ProxySpecInit /\ [][ProxySpecNext]_vars

QueueEnqueue ==
  /\ \E movies \in Batches : Enqueue(movies)
  /\ UNCHANGED <<cacheVars, keyVars, proxyVars, cursorVars, mergeVars, moreVars>>

QueueManualRequest ==
  /\ \E m \in MovieIds, force \in BOOLEAN, lists \in Renders :
       ManualRequest(m, force, lists)
  /\ UNCHANGED <<cacheVars, keyVars, proxyVars, cursorVars, mergeVars, moreVars>>

QueueFetchSettles ==
  /\ \E f \in fetches, outcome \in FetchOutcomes, lists \in Renders :
       FetchSettles(f, outcome, lists)
  /\ UNCHANGED <<cacheVars, keyVars, proxyVars, cursorVars, mergeVars, moreVars>>

QueueFinallyRuns ==
  /\ \E f \in fetches, lists \in Renders : FinallyRuns(f, lists)
  /\ UNCHANGED <<cacheVars, keyVars, proxyVars, cursorVars, mergeVars, moreVars>>

\* the enrichment queue under renders, clicks and responses
QueueSpecInit == QueueInit /\ CacheIdle /\ KeyIdle /\ ProxyInit /\ CursorInit /\ MergeIdle /\ MoreIdle
QueueSpecNext ==
  QueueEnqueue \/ QueueManualRequest \/ QueueFetchSettles \/ QueueFinallyRuns
QueueSpec == QueueSpecInit /\ [][QueueSpecNext]_vars

\* the lists and the render of the enrichment specification
EnrichBatches == {<<1>>, <<3, 2>>}
EnrichRenders == {<<<<1, 3>>>>}
\* a request fails or gives scores
EnrichOutcomes == {o \in FetchOutcomes : o.kind = "throws" \/ (o.kind = "ok" /\ o.data # Null)}

EnrichEnqueue ==
  /\ \E movies \in EnrichBatches : Enqueue(movies)
  /\ UNCHANGED <<cacheVars, keyVars, proxyVars, cursorVars, mergeVars, moreVars>>

EnrichManualRequest ==
  /\ \E m \in MovieIds, force \in BOOLEAN, lists \in EnrichRenders :
       ManualRequest(m, force, lists)
  /\ UNCHANGED <<cacheVars, keyVars, proxyVars, cursorVars, mergeVars, moreVars>>

EnrichFetchSettles ==
  /\ \E f \in fetches, outcome \in EnrichOutcomes, lists \in EnrichRenders :
       FetchSettles(f, outcome, lists)
  /\ UNCHANGED <<cacheVars, keyVars, proxyVars, cursorVars, mergeVars, moreVars>>

EnrichFinallyRuns ==
  /\ \E f \in fetches, lists \in EnrichRenders : FinallyRuns(f, lists)
  /\ UNCHANGED <<cacheVars, keyVars, proxyVars, cursorVars, mergeVars, moreVars>>

EnrichCredits ==
  /\ \E m \in {1, 3}, credits \in CreditsResults, prefetched \in BOOLEAN :
       EnrichWithCredits(m, credits, prefetched)
  /\ UNCHANGED <<cacheVars, keyVars, proxyVars, cursorVars, mergeVars, moreVars>>

\* the two enrichments of the movie objects: credits and critic scores
EnrichSpecNext ==
  \/ EnrichEnqueue \/ EnrichManualRequest \/ EnrichFetchSettles
  \/ EnrichFinallyRuns \/ EnrichCredits
EnrichSpec == QueueSpecInit /\ [][EnrichSpecNext]_vars

CursorStartRun ==
  /\ \E id \in RunIds, usingProxy \in Proxies, minFeedSize \in FeedSizes,
        existingMovies \in SeedLists :
       StartRun(id, usingProxy, minFeedSize, existingMovies)
  /\ UNCHANGED <<cacheVars, keyVars, proxyVars, queueVars, mergeVars, moreVars>>

CursorPageArrives ==
  /\ \E id \in RunIds :
       /\ runs[id] # NoRun
       /\ \E response \in PageResponses(runs[id].page) : PageArrives(id, response)
  /\ UNCHANGED <<cacheVars, keyVars, proxyVars, queueVars, mergeVars, moreVars>>

CursorSetFeedFilter ==
  /\ \E filter \in FilterStates : SetFeedFilter(filter)
  /\ UNCHANGED <<cacheVars, keyVars, proxyVars, queueVars, mergeVars, moreVars>>

\* the discovery cursor under interleaved calls
CursorSpecInit == CursorInit /\ CacheIdle /\ KeyIdle /\ ProxyInit /\ QueueIdle /\ MergeIdle /\ MoreIdle
CursorSpecNext ==
  CursorStartRun \/ CursorPageArrives \/ CursorSetFeedFilter
CursorSpec == CursorSpecInit /\ [][CursorSpecNext]_vars

\* what the local storage can hold when the page opens: nothing, or an entry
\* for the signature of the filters; the entry is what some earlier session,
\* or anything else that writes the storage, left there
StoredEntries ==
  {Entry(1, 0, NoTotal, FALSE), Entry(1, MaxPage + 1, NoTotal, FALSE),
   Entry(2, 0, 2, FALSE), Entry(3, 0, 2, TRUE)}
StoredStates(filter) ==
  {<<>>} \cup {<<[docId |-> DiscoverKeyTable[TRUE][filter], entry |-> entry]>> :
                 entry \in StoredEntries}

\* the pages of the paging specification: also results under the threshold
\* of a rating filter, and a total that grows
PagingResponses(page) ==
  {[kind |-> "throws"]}
    \cup {[kind |-> "page", results |-> results, totalPages |-> totalPages] :
            results \in {<<>>, <<Fair(10 + page)>>, <<Good(10 + page)>>},
            totalPages \in {NoTotal, 2, 3}}

PagingLoadPreferences ==
  /\ LoadPreferences(NoUser, FALSE)
  /\ UNCHANGED <<cacheVars, keyVars, proxyVars, queueVars, mergeVars, moreVars>>

PagingStartRun ==
  /\ \E minFeedSize \in FeedSizes : StartRun(1, TRUE, minFeedSize, <<>>)
  /\ UNCHANGED <<cacheVars, keyVars, proxyVars, queueVars, mergeVars, moreVars>>

PagingPageArrives ==
  /\ runs[1] # NoRun
  /\ \E response \in PagingResponses(runs[1].page) : PageArrives(1, response)
  /\ UNCHANGED <<cacheVars, keyVars, proxyVars, queueVars, mergeVars, moreVars>>

\* one call after another on a cursor hydrated from the local storage
PagingSpecInit ==
  /\ \E filter \in FilterStates :
       /\ feedFilterState = filter
       /\ localDiscoverState \in StoredStates(filter)
  /\ tmdbDiscoverHistory = <<>>
  /\ tmdbDiscoverStateDirty = FALSE
  /\ tmdbDiscoverPersistTimer = FALSE
  /\ runs = [id \in RunIds |-> NoRun]
  /\ discovered = NoResult
  /\ activeUserId = NoUser
  /\ prefsLoadedFor = NoUser
  /\ remoteDiscoverState = <<>>
  /\ discoverPersists = <<>>
  /\ CacheIdle /\ KeyIdle /\ ProxyInit /\ QueueIdle /\ MergeIdle /\ MoreIdle
PagingSpecNext == PagingLoadPreferences \/ PagingStartRun \/ PagingPageArrives
PagingSpec == PagingSpecInit /\ [][PagingSpecNext]_vars

\* the pages of the history and persistence specifications: every page has
\* a result that passes the filters, so every call advances its cursor by
\* one page
PersistResponses(page) ==
  {[kind |-> "page", results |-> <<Good(10 + page)>>, totalPages |-> NoTotal]}

HistoryStartRun ==
  /\ \E minFeedSize \in FeedSizes : StartRun(1, TRUE, minFeedSize, <<>>)
  /\ UNCHANGED <<cacheVars, keyVars, proxyVars, queueVars, mergeVars, moreVars>>

HistoryPageArrives ==
  /\ runs[1] # NoRun
  /\ \E response \in PersistResponses(runs[1].page) : PageArrives(1, response)
  /\ UNCHANGED <<cacheVars, keyVars, proxyVars, queueVars, mergeVars, moreVars>>

HistorySetFeedFilter ==
  /\ \E filter \in FilterStates : SetFeedFilter(filter)
  /\ UNCHANGED <<cacheVars, keyVars, proxyVars, queueVars, mergeVars, moreVars>>

\* the preferences are loaded from the local storage: nobody is signed in, or
\* the store fails for the user who is
HistoryLoadPreferences ==
  /\ \E user \in {NoUser} \cup Users : LoadPreferences(user, FALSE)
  /\ UNCHANGED <<cacheVars, keyVars, proxyVars, queueVars, mergeVars, moreVars>>

HistoryTimer ==
  /\ PersistTimerFires
  /\ UNCHANGED <<cacheVars, keyVars, proxyVars, queueVars, mergeVars, moreVars>>

\* the cursor history over filter changes, local saves and preference loads
HistorySpecInit == CursorSpecInit
HistorySpecNext ==
  \/ HistoryStartRun \/ HistoryPageArrives \/ HistorySetFeedFilter
  \/ HistoryLoadPreferences \/ HistoryTimer
HistorySpec == HistorySpecInit /\ [][HistorySpecNext]_vars

PersistLoadPreferences ==
  /\ \E user \in {NoUser} \cup Users, loadedFromRemote \in BOOLEAN :
       LoadPreferences(user, loadedFromRemote)
  /\ UNCHANGED <<cacheVars, keyVars, proxyVars, queueVars, mergeVars, moreVars>>

PersistSettle ==
  /\ \E ok \in BOOLEAN : PersistSettles(ok)
  /\ UNCHANGED <<cacheVars, keyVars, proxyVars, queueVars, mergeVars, moreVars>>

\* the debounced persistence of the cursor of one signature, with a user
\* signing in and out
PersistSpecInit == CursorSpecInit
PersistSpecNext ==
  \/ HistoryStartRun \/ HistoryPageArrives \/ PersistLoadPreferences
  \/ HistoryTimer \/ PersistSettle
PersistSpec == PersistSpecInit /\ [][PersistSpecNext]_vars

MergeSelectCandidates ==
  SelectCandidates /\ UNCHANGED <<cacheVars, keyVars, proxyVars, queueVars, cursorVars, moreVars>>
MergeDedupe ==
  Dedupe /\ UNCHANGED <<cacheVars, keyVars, proxyVars, queueVars, cursorVars, moreVars>>
MergeDedupeTwice ==
  DedupeTwice /\ UNCHANGED <<cacheVars, keyVars, proxyVars, queueVars, cursorVars, moreVars>>

MergeSpecInit ==
  MergeInit /\ CacheIdle /\ KeyIdle /\ ProxyInit /\ QueueIdle /\ CursorInit /\ MoreIdle
MergeSpecNext == MergeSelectCandidates \/ MergeDedupe \/ MergeDedupeTwice
MergeSpec == MergeSpecInit /\ [][MergeSpecNext]_vars

\* the store is absent or works; the payloads have a status
MemDbOutcomes == {"null", "ok"}
MemPayloads == {p \in Payloads : p.status # NotANumber}

MemoryRead ==
  /\ \E k \in MemKeyIds, ttlMs \in Ttls, db \in MemDbOutcomes :
       Read(TMDB_CACHE_COLLECTION, k, ttlMs, db)
  /\ UNCHANGED <<keyVars, proxyVars, queueVars, cursorVars, mergeVars, moreVars>>

MemoryWrite ==
  /\ \E k \in MemKeyIds, payload \in MemPayloads, db \in MemDbOutcomes :
       Write(TMDB_CACHE_COLLECTION, k, payload, db)
  /\ UNCHANGED <<keyVars, proxyVars, queueVars, cursorVars, mergeVars, moreVars>>

\* the cache of one collection under callers with more keys than the
\* in-memory fallback holds
MemorySpecNext == MemoryRead \/ MemoryWrite \/ CacheTick
MemorySpec == Init /\ [][MemorySpecNext]_vars

(***************************************************************************)
(* Properties of the tiered response cache, checked under Spec.            *)
(***************************************************************************)
DocId(k) == CacheId(KeyParts(k))
\* the four payload fields of a stored copy
PayloadOf(e) ==
  [status |-> e.status, contentType |-> e.contentType, body |-> e.body,
   metadata |-> e.metadata]
HasDoc(c, k) == <<c, DocId(k)>> \in DOMAIN durable
DocOf(c, k) == durable[<<c, DocId(k)>>]
\* the copy a read of (c, k) is served from: the durable document when the
\* store answers and holds one, else the entry of the Map when the fallback
\* is enabled
ServingCopy(c, k, db) ==
  IF db = "ok" /\ HasDoc(c, k) THEN <<DocOf(c, k)>>
  ELSE IF ~REQUIRE_FIRESTORE /\ MapHas(inMemoryCache, DocId(k))
       THEN <<MapGet(inMemoryCache, DocId(k))>>
  ELSE <<>>

\* C4, as amended: a read with a positive ttl is decided by the copy that
\* serves it (the durable document of the collection and key when the store
\* answers and holds one, else the in-memory entry of the key when the
\* fallback is enabled).  With T the fetchedAt of that copy, the read returns
\* the copy's payload at every time up to T+ttl (so at T+ttl-1 or earlier)
\* and is a miss at T+ttl+1 or later; with no such copy it is a miss.
C4_TtlRespect ==
  [][ret'.op = "read" =>
     \A c \in Collections, k \in CacheKeyIds, ttlMs \in Ttls \ {0}, db \in DbOutcomes :
       Read(c, k, ttlMs, db) =>
         LET copy == ServingCopy(c, k, db)
         IN IF copy = <<>> THEN ret'.value = Miss
            ELSE /\ now <= copy[1].fetchedAt + ttlMs => ret'.value = PayloadOf(copy[1])
                 /\ now >= copy[1].fetchedAt + ttlMs + 1 => ret'.value = Miss]_vars

\* C4 witness: with the fallback enabled every write with a body puts an
\* entry into the Map and only an expired read takes it out again; here a
\* read has just missed, the Map is empty again and the durable document is
\* older than ttl + 1
C4_Witness ==
  /\ ~REQUIRE_FIRESTORE
  /\ ret.op = "read" /\ ret.value = Miss
  /\ written # <<>> /\ inMemoryCache = <<>>
  /\ \E c \in Collections, k \in CacheKeyIds :
       HasDoc(c, k) /\ now >= DocOf(c, k).fetchedAt + 2

\* C4 as stated: the entry last written under (c, k) at time T is returned by
\* every positive-ttl read at T+ttl-1 or earlier and missed by every such
\* read at T+ttl+1 or later
C4_AsStated ==
  [][ret'.op = "read" =>
     \A c \in Collections, k \in CacheKeyIds, ttlMs \in Ttls \ {0}, db \in DbOutcomes :
       (Read(c, k, ttlMs, db) /\ <<c, DocId(k)>> \in DOMAIN written) =>
         LET w == written[<<c, DocId(k)>>]
         IN /\ now <= w.at + ttlMs - 1 => ret'.value = w.payload
            /\ now >= w.at + ttlMs + 1 => ret'.value = Miss]_vars

C7_ErrorsNotPropagated ==
  /\ [](ret.rejected = FALSE)
  /\ [][(ret'.op = "read" /\ ret'.logged) =>
        \A c \in Collections, k \in CacheKeyIds, ttlMs \in Ttls :
          Read(c, k, ttlMs, "throws") =>
            \/ ret'.value = Miss
            \/ /\ ~REQUIRE_FIRESTORE
               /\ MapHas(inMemoryCache, DocId(k))
               /\ ~(ttlMs > 0 /\ now - MapGet(inMemoryCache, DocId(k)).fetchedAt > ttlMs)
               /\ ret'.value = PayloadOf(MapGet(inMemoryCache, DocId(k)))]_vars

\* C7 witness: a read whose store call failed (the error was logged)
\* resolved with an entry
C7_Witness ==
  /\ ret.op = "read" /\ ret.logged
  /\ ~ret.rejected
  /\ ret.value # Miss

\* C7 witness of the other half: a failed write resolved
C7_WitnessWrite == ret.op = "write" /\ ret.logged /\ ~ret.rejected

\* C8: with REQUIRE_FIRESTORE on, the Map stays empty and every read
\* resolves with a miss or with the unexpired durable document of its
\* collection and key
C8_DurableRequired ==
  /\ [](REQUIRE_FIRESTORE => inMemoryCache = <<>>)
  /\ [][(REQUIRE_FIRESTORE /\ ret'.op = "read") =>
        \A c \in Collections, k \in CacheKeyIds, ttlMs \in Ttls, db \in DbOutcomes :
          Read(c, k, ttlMs, db) =>
            \/ ret'.value = Miss
            \/ /\ db = "ok" /\ HasDoc(c, k)
               /\ ~(ttlMs > 0 /\ now - DocOf(c, k).fetchedAt > ttlMs)
               /\ ret'.value = PayloadOf(DocOf(c, k))]_vars

\* C8 witness: in required mode, after writes, a read was served (from the
\* store) and another collection's write of the same key left no entry
C8_Witness ==
  /\ REQUIRE_FIRESTORE
  /\ Cardinality(DOMAIN written) = 2
  /\ ret.op = "read" /\ ret.value # Miss

\* C10: collections are independent namespaces: a read under a collection
\* and key parts resolves with an entry only if an entry was written under
\* that collection and those key parts; an entry written under another
\* collection with the same key parts is never returned
C10_CollectionsIndependent ==
  [][(ret'.op = "read" /\ ret'.value # Miss) =>
     \A c \in Collections, k \in CacheKeyIds, ttlMs \in Ttls, db \in DbOutcomes :
       Read(c, k, ttlMs, db) =>
         <<c, DocId(k)>> \in DOMAIN written]_vars

(***************************************************************************)
(* Properties of key derivation, checked under KeySpec.                    *)
(***************************************************************************)
Count(entries, p) == Cardinality({i \in 1..Len(entries) : entries[i] = p})
EntriesOf(entries) == {entries[i] : i \in 1..Len(entries)}
\* the same entries, in any order
SameUpToOrdering(x, y) ==
  /\ Len(x) = Len(y)
  /\ \A p \in EntriesOf(x) \cup EntriesOf(y) : Count(x, p) = Count(y, p)
WithoutCredential(entries) == SelectSeq(entries, LAMBDA e : e[1] # "api_key")

\* C5, as amended: the key of the TMDB proxy (tmdbCacheKeyParts through
\* normalizeTmdbParams, then buildCacheId) is the same for two queries that
\* are equal up to ordering once their api_key entries are left out, and
\* buildCacheId gives the same key for two object parts with the same
\* entries in any order
C5_KeyDerivation ==
  derived.derived =>
    /\ SameUpToOrdering(WithoutCredential(paramsA), WithoutCredential(paramsB))
         => derived.a.tmdb = derived.b.tmdb
    /\ SameUpToOrdering(ObjectFromEntries(paramsA), ObjectFromEntries(paramsB))
         => derived.a.obj = derived.b.obj

\* C5 witness: keys were derived for two queries whose entries come in
\* different orders and of which only one carries a credential; the proxy
\* keys agree, the keys of the raw URLSearchParams do not
C5_Witness ==
  /\ derived.derived
  /\ WithoutCredential(paramsA) # WithoutCredential(paramsB)
  /\ SameUpToOrdering(WithoutCredential(paramsA), WithoutCredential(paramsB))
  /\ Len(paramsA) # Len(paramsB)
  /\ derived.a.tmdb = derived.b.tmdb
  /\ derived.a.usp # derived.b.usp

\* C5 as stated: buildCacheId on the parameters, as well as the proxy key,
\* is the same for parameter sets equal up to ordering and for parameter
\* sets that differ only in api_key
C5_AsStated ==
  derived.derived =>
    /\ SameUpToOrdering(paramsA, paramsB) =>
         /\ derived.a.tmdb = derived.b.tmdb
         /\ derived.a.usp = derived.b.usp
         /\ derived.a.obj = derived.b.obj
    /\ WithoutCredential(paramsA) = WithoutCredential(paramsB) =>
         /\ derived.a.tmdb = derived.b.tmdb
         /\ derived.a.usp = derived.b.usp
         /\ derived.a.obj = derived.b.obj

(***************************************************************************)
(* Properties of the caching callers, checked under ProxySpec.             *)
(***************************************************************************)
\* the successful upstream responses
TmdbOk == {up \in TmdbUpstream : up.kind = "response" /\ up.ok}
OmdbOk ==
  {up \in OmdbUpstream :
     up.kind = "response" /\ up.ok /\ up.data \notin {"not-json", "null", "non-object", "False"}}
\* a cached copy replays a successful TMDB response, a fetched OMDb payload
FromTmdbOk(copy) == \E up \in TmdbOk : copy.status = up.status /\ copy.body = up.body
FromOmdbOk(copy) == \E up \in OmdbOk : copy.body = up.data
\* the copies the cache holds under a collection and key parts
CachedCopies(collection, parts) ==
  {durable[x] : x \in {y \in DOMAIN durable : y = <<collection, CacheId(parts)>>}}
    \cup {inMemoryCache[i].entry :
            i \in {j \in 1..Len(inMemoryCache) : inMemoryCache[j].docId = CacheId(parts)}}

\* C9: every entry the TMDB proxy has cached replays a response that was
\* ok, every entry the OMDb lookup has cached is the payload of a 'fetched'
\* outcome, and a response served from the cache is a successful one
C9_NoNegativeCaching ==
  /\ \A copy \in CachedCopies(TMDB_CACHE_COLLECTION, TmdbParts) : FromTmdbOk(copy)
  /\ \A copy \in CachedCopies(OMDB_CACHE_COLLECTION, OmdbParts) : FromOmdbOk(copy)
  /\ (sent.handler = "tmdbProxy" /\ sent.from = "cache") => FromTmdbOk(sent)

\* C9 witness: the proxy has just relayed a 404 of the upstream and holds
\* no entry for the request, while the lookup has cached a payload
C9_Witness ==
  /\ sent.handler = "tmdbProxy" /\ sent.from = "upstream" /\ sent.status = 404
  /\ CachedCopies(TMDB_CACHE_COLLECTION, TmdbParts) = {}
  /\ CachedCopies(OMDB_CACHE_COLLECTION, OmdbParts) # {}

(***************************************************************************)
(* Properties of the enrichment queue (QueueSpec).                         *)
(***************************************************************************)
\* the requests of a key that still await their response
PendingFetches(k) == {f \in fetches : f.key = k /\ f.phase = "pending"}

\* C1: an item that can be looked up and is handed to
\* enqueueAutoCriticScores a second time while its key waits in the queue or
\* its fetch awaits the response (twice in one list, or in two calls before
\* the first fetch has settled) gets exactly one fetch of
\* /api/movie-ratings: none while the key waits in the queue for a free
\* slot, one from the moment it leaves the queue, and no second one later,
\* as long as nobody clicks the fetch button of the item.
C1_ExactlyOneFetch ==
  \A k \in MovieKeys :
    (k \in resubmitted /\ manual[k] = 0) =>
      IF k \in autoCriticQueuedKeys THEN issued[k] = 0 ELSE issued[k] = 1

\* a key handed in twice whose single fetch is still awaiting its response
C1_Witness ==
  \E k \in MovieKeys :
    /\ k \in resubmitted
    /\ manual[k] = 0
    /\ issued[k] = 1
    /\ PendingFetches(k) # {}
    /\ k \in autoCriticInFlightKeys

(***************************************************************************)
(* The bound of the in-memory fallback.                                    *)
(***************************************************************************)
MemKeysOf(mem) == {mem[i].docId : i \in 1..Len(mem)}

\* C11: the in-memory fallback never holds more than
\* MAX_IN_MEMORY_CACHE_ENTRIES entries, and a write call that makes a key
\* leave it makes the key leave that was put in earliest (the first of the
\* Map's insertion order; writing again to a key that is present is no new
\* insertion): the fallback was full, the key written was not in it, and
\* what is left is the later keys in their order followed by the new one.
C11_BoundedOldestEvicted ==
  [][/\ Len(inMemoryCache') <= MAX_IN_MEMORY_CACHE_ENTRIES
     /\ (ret'.op = "write" /\ MemKeysOf(inMemoryCache) \ MemKeysOf(inMemoryCache') # {}) =>
          /\ Len(inMemoryCache) = MAX_IN_MEMORY_CACHE_ENTRIES
          /\ MemKeysOf(inMemoryCache) \ MemKeysOf(inMemoryCache')
               = {Head(inMemoryCache).docId}
          /\ Len(inMemoryCache') = MAX_IN_MEMORY_CACHE_ENTRIES
          /\ SubSeq(inMemoryCache', 1, Len(inMemoryCache') - 1) = Tail(inMemoryCache)
          /\ inMemoryCache'[Len(inMemoryCache')].docId \notin MemKeysOf(inMemoryCache)
    ]_vars

\* a write has just pushed a key out of the full fallback: no entry can have
\* expired yet, and a key that was written is not in the Map
C11_Witness ==
  /\ ~REQUIRE_FIRESTORE
  /\ now = 1
  /\ ret.op = "write"
  /\ Len(inMemoryCache) = MAX_IN_MEMORY_CACHE_ENTRIES
  /\ \E key \in DOMAIN written : key[2] \notin MemKeysOf(inMemoryCache)

(***************************************************************************)
(* The concurrency limit and the admission to the queue.                   *)
(***************************************************************************)
\* the fetches the pump started that await their response
AutoFetchesInFlight == {f \in fetches : f.chain = "pump" /\ f.phase = "pending"}
\* C12: the fetches the queue has in flight, as counted by
\* autoCriticInFlightCount and as requests awaiting their response, are never
\* more than AUTO_CRITIC_FETCH_CONCURRENCY.
C12_ConcurrencyLimit ==
  /\ autoCriticInFlightCount <= AUTO_CRITIC_FETCH_CONCURRENCY
  /\ Cardinality(AutoFetchesInFlight) <= autoCriticInFlightCount

\* the limit is reached while objects wait in the queue
C12_Witness ==
  /\ Cardinality(AutoFetchesInFlight) = AUTO_CRITIC_FETCH_CONCURRENCY
  /\ Len(autoCriticFetchQueue) > 0

\* C13: a key that a step brings into the queue was neither queued nor in
\* flight before the step and its state was idle; no key is in the queue
\* twice, and no key is in the queue while it is among the in-flight keys or
\* while a fetch the pump started for it has not finished.
C13_Admission ==
  [][/\ \A i \in 1..Len(autoCriticFetchQueue') :
          LET k == KeyOf(autoCriticFetchQueue'[i])
          IN (\A j \in 1..Len(autoCriticFetchQueue) :
                KeyOf(autoCriticFetchQueue[j]) # k) =>
               /\ k \notin autoCriticQueuedKeys
               /\ k \notin autoCriticInFlightKeys
               /\ criticScoreStateById[k].status \in {"", "idle"}
     /\ \A i, j \in 1..Len(autoCriticFetchQueue') :
          i # j => KeyOf(autoCriticFetchQueue'[i]) # KeyOf(autoCriticFetchQueue'[j])
     /\ \A i \in 1..Len(autoCriticFetchQueue') :
          LET k == KeyOf(autoCriticFetchQueue'[i])
          IN /\ k \notin autoCriticInFlightKeys'
             /\ \A f \in fetches' : f.chain = "pump" => f.key # k
    ]_vars

\* an object waits in the queue, a fetch of another key is in flight, and
\* the waiting key has been handed in again
C13_Witness ==
  /\ Len(autoCriticFetchQueue) > 0
  /\ autoCriticInFlightKeys # {}
  /\ KeyOf(Head(autoCriticFetchQueue)) \in resubmitted

(***************************************************************************)
(* The refilling of the queue and the signal of a drain.                   *)
(***************************************************************************)
QueueBusy(count, queue) == count > 0 \/ Len(queue) > 0
\* the requests of the pump whose .finally has not run
PumpRequests(fs) == {f \in fs : f.chain = "pump"}

\* C14: the queue refills itself and signals each drain once.  Objects wait
\* in the queue only while the fetches in flight are at the limit, so the
\* .finally of a fetch starts the next one in the same step; a step that
\* takes the queue from busy (something queued or in flight) to drained is
\* the .finally of the last request and calls refreshUI; a step calls
\* refreshUI for a drain at most once, only as the .finally of a request of
\* the pump, and only with nothing in flight and nothing queued at the call.
C14_RefillAndSignalOnce ==
  [][/\ Len(autoCriticFetchQueue') > 0 =>
          autoCriticInFlightCount' = AUTO_CRITIC_FETCH_CONCURRENCY
     /\ (/\ QueueBusy(autoCriticInFlightCount, autoCriticFetchQueue)
         /\ ~QueueBusy(autoCriticInFlightCount', autoCriticFetchQueue')) =>
          Len(drainSignals') = 1
     /\ Len(drainSignals') <= 1
     /\ Len(drainSignals') = 1 =>
          /\ drainSignals'[1] = [inFlight |-> 0, queued |-> 0]
          /\ \E f \in PumpRequests(fetches) :
               /\ f.phase = "settled"
               /\ PumpRequests(fetches) \ PumpRequests(fetches') = {f}
               /\ PumpRequests(fetches) = {f}
    ]_vars

\* the .finally of the last request has signalled the drain, and the refresh
\* it called has put a further object in flight
C14_Witness ==
  /\ Len(drainSignals) = 1
  /\ autoCriticInFlightCount = AUTO_CRITIC_FETCH_CONCURRENCY
  /\ \E k \in MovieKeys : issued[k] > 0 /\ criticScoreStateById[k].status = "loaded"

\* a .finally has started the next fetch of the queue, without a signal
C14_WitnessRefill ==
  /\ drainSignals = <<>>
  /\ \E f \in AutoFetchesInFlight :
       /\ f.n = 1
       /\ \E k \in MovieKeys :
            /\ k # f.key
            /\ issued[k] = 1 /\ manual[k] = 0
            /\ criticScoreStateById[k].status \in {"loaded", "error"}
            /\ \A g \in fetches : g.key # k

(***************************************************************************)
(* The transitions of the state of a key.                                  *)
(***************************************************************************)
\* the request for key k that left in the step, if one did
IssuedInStep(k) == {f \in fetches' : f.key = k /\ f.n > issued[k]}
\* an object of key k carries scores
CarriesScores(k) ==
  \E m \in MovieIds : KeyOf(m) = k /\ movieObjects[m].criticScores # Null

\* C15: the state of a key moves only from idle to loading, from loading to
\* loaded or error, and from loaded or error back to loading through a
\* request with force = true; a request leaves exactly when the state turns
\* to loading.  (A key without a state whose object carries scores already
\* is taken as loaded.)
C15_OnlyLegalTransitions ==
  [][\A k \in MovieKeys :
       LET from == criticScoreStateById[k].status
           to == criticScoreStateById'[k].status
       IN \/ from = to /\ IssuedInStep(k) = {}
          \/ from \in {"", "idle"} /\ to = "loading" /\ IssuedInStep(k) # {}
          \/ from = "" /\ to = "loaded" /\ CarriesScores(k) /\ IssuedInStep(k) = {}
          \/ from = "loading" /\ to \in {"loaded", "error"} /\ IssuedInStep(k) = {}
          \/ /\ from \in {"loaded", "error"} /\ to = "loading"
             /\ IssuedInStep(k) # {}
             /\ \A f \in IssuedInStep(k) : f.force
    ]_vars

(***************************************************************************)
(* Failures of a fetch.                                                    *)
(***************************************************************************)
\* C16: a fetch of the queue that fails leaves its key in state error with a
\* message that is not empty; every error state has such a message; and
\* the queue starts a fetch only for a key that was idle, never for a key in
\* state error.
C16_ErrorNotRetried ==
  [][\A k \in MovieKeys :
       /\ \A f \in IssuedInStep(k) :
            f.chain = "pump" => criticScoreStateById[k].status \in {"", "idle"}
       /\ \A f \in fetches :
            (/\ f.key = k /\ f.chain = "pump" /\ f.phase = "pending"
             /\ [f EXCEPT !.phase = "settled", !.failed = TRUE] \in fetches') =>
              criticScoreStateById'[k].status = "error"
       /\ criticScoreStateById'[k].status = "error" =>
            criticScoreStateById'[k].error # ""
    ]_vars

\* the fetch of a key has failed and is over, no click was made on the key,
\* and the queue has since put another key in flight
C16_Witness ==
  \E k \in MovieKeys :
    /\ criticScoreStateById[k].status = "error"
    /\ criticScoreStateById[k].error # ""
    /\ issued[k] = 1 /\ manual[k] = 0
    /\ \A f \in fetches : f.key # k
    /\ \E g \in AutoFetchesInFlight : g.key # k

(***************************************************************************)
(* The owner of the state.                                                 *)
(***************************************************************************)
\* C17: every object observes, through getCriticScoreState, the state last
\* set for its key.
C17_KeyOwnsState ==
  \A m \in MovieIds :
    (KeyOf(m) # NoKey /\ criticScoreStateById[KeyOf(m)] # Absent) =>
      getCriticScoreState(QueueState, m).state = criticScoreStateById[KeyOf(m)]

(***************************************************************************)
(* Enrichment only adds.                                                   *)
(***************************************************************************)
\* C18: no step empties the topCast or the directors of an object that has
\* them, takes the critic scores from an object that carries them, or takes
\* the data from the state of a key that has data.
C18_EnrichmentOnlyAdds ==
  [][/\ \A m \in MovieIds :
          /\ movieCredits[m].topCast # <<>> => movieCredits'[m].topCast # <<>>
          /\ movieCredits[m].directors # <<>> => movieCredits'[m].directors # <<>>
          /\ movieObjects[m].criticScores # Null => movieObjects'[m].criticScores # Null
          /\ movieObjects[m].criticScoresState.data # Null =>
               movieObjects'[m].criticScoresState.data # Null
     /\ \A k \in MovieKeys :
          criticScoreStateById[k].data # Null => criticScoreStateById'[k].data # Null
    ]_vars

\* an object has its credits, and a key whose scores were loaded is in state
\* error after a later request, with the scores still there
C18_Witness ==
  /\ \E m \in MovieIds : hasEnrichedCredits(movieCredits[m])
  /\ \E m \in MovieIds :
       /\ issued[KeyOf(m)] > 0
       /\ criticScoreStateById[KeyOf(m)].status = "error"
       /\ criticScoreStateById[KeyOf(m)].data # Null
       /\ movieObjects[m].criticScores # Null

(***************************************************************************)
(* The discovery cursor.                                                   *)
(***************************************************************************)
EntryOf(history, key) == readTmdbDiscoverState(history, key)
Last(seq) == seq[Len(seq)]

\* C2: while a signature has an entry in the history, no step lowers the
\* nextPage of the entry.
C2_NextPageMonotonic ==
  [][\A key \in DiscoverKeys :
       (/\ EntryOf(tmdbDiscoverHistory, key) # NoEntry
        /\ EntryOf(tmdbDiscoverHistory', key) # NoEntry) =>
         EntryOf(tmdbDiscoverHistory', key).nextPage
           >= EntryOf(tmdbDiscoverHistory, key).nextPage
    ]_vars

\* C3: a call that found, at its start, an entry of its signature marked
\* exhausted with a known total page count made no page request and returned
\* at once with the ordered set of the movies handed to it.
C3_ExhaustedSkipsNetwork ==
  (/\ discovered # NoResult
   /\ discovered.history # NoEntry
   /\ discovered.history.exhausted
   /\ discovered.history.totalPages # NoTotal) =>
    /\ discovered.requests = 0
    /\ discovered.outcome = "skipped"

\* a call has returned without a request because of an exhausted entry that
\* an earlier call wrote after the pages up to the total had come
C3_Witness ==
  /\ discovered # NoResult
  /\ discovered.outcome = "skipped"
  /\ discovered.requests = 0
  /\ discovered.history.exhausted
  /\ discovered.history.nextPage > discovered.history.totalPages
  /\ discovered.movies # <<>>

\* C19: the pages a call has requested are consecutive and increasing, the
\* call awaits the last of them, and the step in which a call requests a
\* further page is the step in which the page before came, was merged, and
\* left the feed shorter than minFeedSize.
C19_PagesInOrder ==
  [][\A id \in RunIds :
       runs'[id] # NoRun =>
         LET requested == runs'[id].requested
         IN /\ requested # <<>>
            /\ \A i \in 1..(Len(requested) - 1) : requested[i + 1] = requested[i] + 1
            /\ runs'[id].page = Last(requested)
            /\ runs'[id].fetched = SubSeq(requested, 1, Len(requested) - 1)
            /\ runs[id] # NoRun =>
                 \/ runs'[id] = runs[id]
                 \/ /\ requested = Append(runs[id].requested, Last(runs[id].requested) + 1)
                    /\ Len(applyFeedFilters(applyPriorityOrdering(runs'[id].collected),
                                            feedFilterState))
                         < runs'[id].minFeedSize
    ]_vars

\* a call has merged the page it started at and awaits the next one
C19_Witness ==
  \E id \in RunIds :
    /\ runs[id] # NoRun
    /\ Len(runs[id].requested) = 2
    /\ runs[id].fetched = <<runs[id].requested[1]>>
    /\ runs[id].collected # <<>>

\* The pages a call has fetched when it ends in this step: a call ends when
\* the answer to its last request arrives, a page unless the call is rejected.
FetchedAtEnd(id) ==
  IF discovered'.outcome = "rejected"
  THEN runs[id].fetched
  ELSE Append(runs[id].fetched, runs[id].page)

\* C20: when a call ends that fetched at least one page, the entry of its
\* signature has nextPage equal to the last page fetched plus one.
C20_CursorAfterRun ==
  [][\A id \in RunIds :
       (runs[id] # NoRun /\ runs'[id] = NoRun /\ FetchedAtEnd(id) # <<>>) =>
         LET entry == EntryOf(tmdbDiscoverHistory', runs[id].requestKey)
         IN /\ entry # NoEntry
            /\ entry.nextPage = Last(FetchedAtEnd(id)) + 1
    ]_vars

\* C30: when the request of a page fails, the call returns what it had
\* accumulated from the seed and the earlier pages; it is not rejected.
C30_FailureKeepsPartial ==
  [][\A id \in RunIds :
       PageArrives(id, [kind |-> "throws"]) =>
         /\ discovered'.outcome = "returned"
         /\ discovered'.movies = applyPriorityOrdering(runs[id].collected)
    ]_vars

(***************************************************************************)
(* Properties of priority selection and merging, checked under MergeSpec.  *)
(***************************************************************************)
\* the items of the list that pass the i-th threshold, in the order of the list
Passing(movies, i) ==
  SelectSeq(movies, LAMBDA movie :
    /\ movie.vote_average # NotANumber /\ movie.vote_average >= PriorityThresholds[i][1]
    /\ movie.vote_count # NotANumber /\ movie.vote_count >= PriorityThresholds[i][2])
\* the items that have both a rating and a vote count
Rated(movies) ==
  SelectSeq(movies, LAMBDA movie :
    movie.vote_average # NotANumber /\ movie.vote_count # NotANumber)
ThresholdsWith(movies, n) ==
  {i \in 1..Len(PriorityThresholds) : Len(Passing(movies, i)) >= n}
Lowest(S) == CHOOSE i \in S : \A j \in S : i <= j

\* C27: selectPriorityCandidates returns the items passing the first
\* threshold that yields at least MIN_PRIORITY_RESULTS items; if none does,
\* the items passing the first threshold that yields any item; if no item
\* passes any threshold, every item with a rating and a vote count.
C27_PrioritySelection ==
  candidates.called =>
    candidates.value =
      IF ThresholdsWith(movieList, MIN_PRIORITY_RESULTS) # {}
      THEN Passing(movieList, Lowest(ThresholdsWith(movieList, MIN_PRIORITY_RESULTS)))
      ELSE IF ThresholdsWith(movieList, 1) # {}
      THEN Passing(movieList, Lowest(ThresholdsWith(movieList, 1)))
      ELSE Rated(movieList)

\* no threshold yields enough, the first yields one item, and the list has
\* further rated items, which are not returned
C27_Witness ==
  /\ candidates.called
  /\ ThresholdsWith(movieList, MIN_PRIORITY_RESULTS) = {}
  /\ Len(Passing(movieList, 1)) = 1
  /\ candidates.value = Passing(movieList, 1)
  /\ Len(Rated(movieList)) > 1

\* C27 as stated: if no threshold yields enough items, every item with a
\* rating and a vote count is returned.
C27_AsStated ==
  candidates.called =>
    candidates.value =
      IF ThresholdsWith(movieList, MIN_PRIORITY_RESULTS) # {}
      THEN Passing(movieList, Lowest(ThresholdsWith(movieList, MIN_PRIORITY_RESULTS)))
      ELSE Rated(movieList)

\* the positions of the list that hold the given id
PositionsOf(list, id) == {i \in 1..Len(list) : list[i].id = id}
IdsOf(list) == {list[i].id : i \in 1..Len(list)} \ {NotANumber}
\* the instance of the id that the given score prefers: the first of those
\* with the highest score
Preferred(list, id, score(_)) ==
  list[Lowest({i \in PositionsOf(list, id) :
                 \A j \in PositionsOf(list, id) : score(list[i]) >= score(list[j])})]
\* each id once, at the place of its first instance; the items without id
\* at their places
MergedBy(list, score(_)) ==
  LET kept == SelectSeq([i \in 1..Len(list) |-> i], LAMBDA i :
                list[i].id = NotANumber \/ i = Lowest(PositionsOf(list, list[i].id)))
  IN [n \in 1..Len(kept) |->
        IF list[kept[n]].id = NotANumber THEN list[kept[n]]
        ELSE Preferred(list, list[kept[n]].id, score)]
WeightedScore(movie) ==
  (IF movie.poster_path # "" THEN 3 ELSE 0)
  + (IF movie.overview # "" THEN 2 ELSE 0)
  + Cardinality({f \in {"vote_average", "vote_count"} : movie[f] # NotANumber})
  + (IF movie.release_date # "" THEN 1 ELSE 0)
  + (IF movie.criticScores # Null THEN 1 ELSE 0)
  + Cardinality({f \in {"directors", "topCast", "genre_ids"} : movie[f] # <<>>})
PopulatedFields(movie) ==
  Cardinality({f \in {"poster_path", "overview", "release_date"} : movie[f] # ""})
  + Cardinality({f \in {"vote_average", "vote_count"} : movie[f] # NotANumber})
  + (IF movie.criticScores # Null THEN 1 ELSE 0)
  + Cardinality({f \in {"directors", "topCast", "genre_ids"} : movie[f] # <<>>})

C29_MergeIdempotent ==
  (deduped.called /\ dedupedTwice.called) =>
    /\ dedupedTwice.value =
         deduped.value \o SelectSeq(movieList, LAMBDA movie : movie.id = NotANumber)
    /\ (\A i \in 1..Len(movieList) : movieList[i].id # NotANumber) =>
         dedupedTwice.value = deduped.value

\* a list with instances of one id, of another id, nothing without id
C29_Witness ==
  /\ deduped.called /\ dedupedTwice.called
  /\ \A i \in 1..Len(movieList) : movieList[i].id # NotANumber
  /\ Len(deduped.value) = 2
  /\ Len(movieList) = 3
  /\ dedupedTwice.value = deduped.value

\* C29 as stated: the same length and the same scores, item by item.
C29_AsStated ==
  (deduped.called /\ dedupedTwice.called) =>
    /\ Len(dedupedTwice.value) = Len(deduped.value)
    /\ \A i \in 1..Len(deduped.value) :
         scoreMovieForMerge(dedupedTwice.value[i]) = scoreMovieForMerge(deduped.value[i])

C24_CeilingCapped ==
  /\ \A id \in RunIds :
       runs[id] # NoRun => runs[id].allowedPages <= MAX_DISCOVER_PAGES_LIMIT
  /\ \A i \in 1..Len(tmdbDiscoverHistory) :
       tmdbDiscoverHistory[i].entry.allowedPages <= MAX_DISCOVER_PAGES_LIMIT

\* the page that comes leaves the call under its threshold
UnderThreshold(id, response) ==
  Len(applyFeedFilters(
        applyPriorityOrdering(
          MergeMovies(runs[id], response.results, runs[id].suppressedIds).collected),
        feedFilterState)) < runs[id].minFeedSize
\* the total the call knows once the page has come: the one of the page, or
\* the one it had (Infinity when it never had one)
TotalKnown(id, response) ==
  IF response.totalPages > 0 THEN response.totalPages ELSE runs[id].totalPages
\* the entry of the signature of a call after the step
EntryOfNext(id) == readTmdbDiscoverState(tmdbDiscoverHistory', runs[id].requestKey)
\* the call has ended with the step and its entry says exhausted
StopsExhausted(id) ==
  /\ runs'[id] = NoRun
  /\ discovered'.outcome = "returned"
  /\ EntryOfNext(id) # NoEntry
  /\ EntryOfNext(id).exhausted
  /\ EntryOfNext(id).nextPage = runs[id].page + 1
\* a page comes for a call and leaves it under its threshold
PageUnderThreshold(id, response) ==
  /\ response.kind = "page"
  /\ PageArrives(id, response)
  /\ UnderThreshold(id, response)

\* C21 (as amended): a call under its threshold stops and writes
\* exhausted = true as soon as an empty page comes while no total is known, or
\* the page that came is the last of the known total or beyond it (empty or
\* not); before the known total an empty page does not stop it: the call goes
\* on to the next page while its ceiling allows, and when the ceiling stops
\* it, it does not write exhausted = true
C21_StopsAtEnd ==
  [][\A id \in RunIds :
       runs[id] # NoRun =>
         \A response \in PagingResponses(runs[id].page) :
           PageUnderThreshold(id, response) =>
             LET atEnd ==
                   \/ response.results = <<>> /\ TotalKnown(id, response) = Infinity
                   \/ runs[id].page >= TotalKnown(id, response)
             IN /\ atEnd => StopsExhausted(id)
                /\ ~atEnd /\ runs'[id] = NoRun => ~EntryOfNext(id).exhausted
                /\ ~atEnd /\ runs[id].page < runs[id].allowedPages =>
                     /\ runs'[id] # NoRun
                     /\ runs'[id].requested = Append(runs[id].requested, runs[id].page + 1)
    ]_vars

\* a call on a signature without an entry ended under its threshold after the
\* last page of the reported total, and the entry it wrote says exhausted
C21_Witness ==
  /\ discovered # NoResult
  /\ discovered.outcome = "returned"
  /\ discovered.history = NoEntry
  /\ discovered.requests = 2
  /\ Len(applyFeedFilters(discovered.movies, feedFilterState)) = 0
  /\ \E i \in 1..Len(tmdbDiscoverHistory) :
       tmdbDiscoverHistory[i].entry = Entry(3, 3, 2, TRUE)

\* C21 as stated: a call under its threshold stops and writes
\* exhausted = true as soon as an empty page comes or the page that came is
\* the last of the reported total
C21_AsStated ==
  [][\A id \in RunIds :
       runs[id] # NoRun =>
         \A response \in PagingResponses(runs[id].page) :
           /\ PageUnderThreshold(id, response)
           /\ \/ response.results = <<>>
              \/ runs[id].page >= TotalKnown(id, response)
           => StopsExhausted(id)
    ]_vars

\* C22: when a page comes with a total, the call takes that total in place of
\* the one it had from the stored entry or from an earlier page: if it goes
\* on, it does so with that total and to a page within it; if it ends, the
\* entry it writes has that total, and says exhausted exactly when the call
\* was under its threshold and the page was the last of that total or beyond
C22_TrustsLatestTotal ==
  [][\A id \in RunIds :
       runs[id] # NoRun =>
         \A response \in PagingResponses(runs[id].page) :
           /\ response.kind = "page"
           /\ response.totalPages # NoTotal
           /\ PageArrives(id, response)
           => /\ runs'[id] # NoRun =>
                   /\ runs'[id].totalPages = response.totalPages
                   /\ runs'[id].page <= response.totalPages
              /\ runs'[id] = NoRun =>
                   /\ EntryOfNext(id) # NoEntry
                   /\ EntryOfNext(id).totalPages = response.totalPages
                   /\ EntryOfNext(id).exhausted <=>
                        /\ UnderThreshold(id, response)
                        /\ runs[id].page >= response.totalPages
    ]_vars

\* the total shrank between two calls: a call that started from an entry
\* with a total of 3 got page 2 with a total of 2, stopped there and wrote
\* the new total
C22_Witness ==
  /\ discovered # NoResult
  /\ discovered.outcome = "returned"
  /\ discovered.history # NoEntry
  /\ discovered.history.totalPages = 3
  /\ discovered.history.nextPage = 2
  /\ discovered.requests = 1
  /\ \E i \in 1..Len(tmdbDiscoverHistory) :
       /\ tmdbDiscoverHistory[i].entry.totalPages = 2
       /\ tmdbDiscoverHistory[i].entry.nextPage = 3
       /\ tmdbDiscoverHistory[i].entry.exhausted

\* the total grew between two calls: a call that started from an entry with
\* a total of 2 has gone on to page 3
C22_WitnessGrown ==
  \E id \in RunIds :
    /\ runs[id] # NoRun
    /\ runs[id].history # NoEntry
    /\ runs[id].history.totalPages = 2
    /\ runs[id].totalPages = 3
    /\ runs[id].page = 3

\* the signatures of a history
Signatures(history) == {history[i].docId : i \in 1..Len(history)}
\* the signatures that have an entry before the step and none after it
Removed == Signatures(tmdbDiscoverHistory) \ Signatures(tmdbDiscoverHistory')
\* the signatures removed are the oldest ones, and they made room under a cap
\* that was exceeded
OldestEvicted ==
  /\ Len(tmdbDiscoverHistory') = TMDB_DISCOVER_HISTORY_LIMIT
  /\ Signatures(tmdbDiscoverHistory') \ Signatures(tmdbDiscoverHistory) # {}
  /\ \E n \in 1..Len(tmdbDiscoverHistory) :
       Removed = {tmdbDiscoverHistory[i].docId : i \in 1..n}

C26_PersistsCapturedState ==
  [][/\ Len(discoverPersists') > Len(discoverPersists) =>
          /\ discoverPersists' =
               Append(discoverPersists,
                      [serialized |->
                         getSerializableTmdbDiscoverState(tmdbDiscoverHistory)])
          /\ tmdbDiscoverHistory' = tmdbDiscoverHistory
     /\ Len(discoverPersists') = Len(discoverPersists) =>
          discoverPersists' = discoverPersists
     /\ Len(discoverPersists') < Len(discoverPersists) =>
          /\ discoverPersists' = Tail(discoverPersists)
          /\ \/ remoteDiscoverState' = Head(discoverPersists).serialized
             \/ /\ remoteDiscoverState' = remoteDiscoverState
                /\ tmdbDiscoverPersistTimer'
    ]_vars

\* a store call has succeeded after the history was written while it was in
\* flight: the store holds the state captured, not the history of now
C26_Witness ==
  /\ activeUserId \in Users
  /\ discoverPersists = <<>>
  /\ ~tmdbDiscoverStateDirty
  /\ remoteDiscoverState # <<>>
  /\ remoteDiscoverState # getSerializableTmdbDiscoverState(tmdbDiscoverHistory)

(***************************************************************************)
(* The bookkeeping of the queue.                                           *)
(***************************************************************************)
\* C40: autoCriticInFlightCount is the number of keys in
\* autoCriticInFlightKeys, and autoCriticQueuedKeys is exactly the set of the
\* keys of the objects in autoCriticFetchQueue
C40_QueueBookkeeping ==
  /\ autoCriticInFlightCount = Cardinality(autoCriticInFlightKeys)
  /\ autoCriticQueuedKeys =
       {KeyOf(autoCriticFetchQueue[i]) : i \in 1..Len(autoCriticFetchQueue)}

\* an object waits in the queue while the fetches in flight are at the limit
C40_Witness ==
  /\ autoCriticFetchQueue # <<>>
  /\ autoCriticInFlightCount = AUTO_CRITIC_FETCH_CONCURRENCY
  /\ autoCriticInFlightKeys # {}
  /\ autoCriticQueuedKeys # {}
(***************************************************************************)
(* The prefetch under the admin route: start and stop requests between the *)
(* awaits of the run.                                                      *)
(***************************************************************************)
\* passes of the catalog a model run completes before no new run is asked for
MaxPasses == 1

PrefetchStarts ==
  /\ prefetchState.completedPasses <= MaxPasses
  /\ \E options \in PrefetchOptions : PrefetchStartRequest(options)
  /\ UNCHANGED notPrefetchVars
PrefetchStops ==
  PrefetchStopRequest
    /\ UNCHANGED notPrefetchVars
PrefetchStateComes ==
  /\ \E i \in 1..Len(prefetchRuns) : \E outcome \in {"comes", "throws"} :
       PrefetchLoads(i, outcome)
  /\ UNCHANGED notPrefetchVars
PrefetchLookupComes ==
  /\ \E i \in 1..Len(prefetchRuns) : \E result \in LookupResults :
       PrefetchLookupSettles(i, result)
  /\ UNCHANGED notPrefetchVars
PrefetchWaited ==
  /\ \E i \in 1..Len(prefetchRuns) : PrefetchWaitEnds(i)
  /\ UNCHANGED notPrefetchVars
PrefetchSaved ==
  /\ \E i \in 1..Len(prefetchRuns) : \E stored \in BOOLEAN :
       PrefetchSaveSettles(i, stored)
  /\ UNCHANGED notPrefetchVars

PrefetchSpecInit ==
  /\ CacheIdle /\ KeyIdle /\ ProxyInit /\ QueueIdle /\ CursorInit /\ MergeIdle
  /\ MoreIdle
PrefetchSpecNext ==
  \/ PrefetchStarts \/ PrefetchStops \/ PrefetchStateComes
  \/ PrefetchLookupComes \/ PrefetchWaited \/ PrefetchSaved \/ CacheTick
PrefetchSpec == PrefetchSpecInit /\ [][PrefetchSpecNext]_vars

PrefetchTypeOK ==
  /\ Len(prefetchRuns) <= 1
  /\ omdbPrefetchRuntime.running \in BOOLEAN
\* C36: at most one prefetch run is active at any time: while a run is active
\* a start request starts no other run and the admin route answers it 409.
C36_SingleActiveRun ==
  /\ [](Len(prefetchRuns) <= 1 /\ (omdbPrefetchRuntime.running <=> prefetchRuns # <<>>))
  /\ [][\A options \in PrefetchOptions :
          (omdbPrefetchRuntime.running /\ PrefetchStartRequest(options))
            => (prefetchReply' = 409 /\ prefetchRuns' = prefetchRuns)]_vars
C36_Witness ==
  /\ prefetchReply = 409
  /\ Len(prefetchRuns) = 1
  /\ prefetchRuns[1].pc = "lookup"
\* C31: when a lookup of a prefetch run is rate limited the run makes no
\* further lookup: it goes to its last save with haltedReason 'rate_limited'
\* and a nextEligibleAt later than the time of the halt, and that is the state
\* stored when the save succeeds.
RateLimited == [outcome |-> "rate_limited", madeNetworkRequest |-> TRUE]
C31_RateLimitHalts ==
  /\ [](\A i \in 1..Len(prefetchRuns) :
          prefetchRuns[i].haltedReason = "rate_limited" => prefetchRuns[i].pc = "final")
  /\ [][\A i \in 1..Len(prefetchRuns) :
          /\ PrefetchLookupSettles(i, RateLimited)
               => /\ prefetchRuns'[i].pc = "final"
                  /\ prefetchRuns'[i].lookups = prefetchRuns[i].lookups
                  /\ prefetchRuns'[i].payload.haltedReason = "rate_limited"
                  /\ prefetchRuns'[i].payload.nextEligibleAt > now
                  /\ omdbPrefetchRuntime'.progress = prefetchRuns'[i].payload
          /\ (prefetchRuns[i].haltedReason = "rate_limited" /\ PrefetchSaveSettles(i, TRUE))
               => /\ prefetchState'.haltedReason = "rate_limited"
                  /\ prefetchState'.nextEligibleAt = prefetchRuns[i].payload.nextEligibleAt
                  /\ prefetchRuns' = <<>>]_vars
C31_Witness ==
  /\ prefetchRuns = <<>>
  /\ prefetchState.haltedReason = "rate_limited"
  /\ prefetchState.nextEligibleAt > now
  /\ prefetchHaltedOn = 3
\* C35: a run that is not a restart and follows a run that halted on a movie
\* (rate limited or invalid key) and stored its state starts at that movie:
\* the cursor it takes from the stored state is the place of that movie in
\* the catalog.
C35_ResumesAtHaltedItem ==
  \A i \in 1..Len(prefetchRuns) :
    (/\ ~prefetchRuns[i].restart
     /\ prefetchRuns[i].resumedAfter > 0
     /\ prefetchRuns[i].first >= 0)
      => prefetchRuns[i].first = prefetchRuns[i].resumedAfter - 1
(***************************************************************************)
(* The prefetch with its awaits settling: the store and OMDb answer or     *)
(* fail, and the timer of the wait fires; the clock stands.                *)
(***************************************************************************)
PrefetchLiveNext ==
  \/ PrefetchStarts \/ PrefetchStops \/ PrefetchStateComes
  \/ PrefetchLookupComes \/ PrefetchWaited \/ PrefetchSaved
PrefetchLiveSpec ==
  /\ PrefetchSpecInit /\ [][PrefetchLiveNext]_vars
  /\ WF_vars(PrefetchStateComes)
  /\ WF_vars(PrefetchLookupComes)
  /\ WF_vars(PrefetchWaited)
  /\ WF_vars(PrefetchSaved)

\* a run on which a stop request has come
StopSeen(i) == i \in 1..Len(prefetchRuns) /\ prefetchRuns[i].stopSeen
HaltedInLookup == {"rate_limited", "invalid_omdb_key"}

MoviesRequests ==
  /\ moviesStatus = 0
  /\ \E query \in MoviesQueries : \E world \in MoviesWorlds : MoviesRequest(query, world)
  /\ UNCHANGED notMoviesVars
MoviesSpecInit ==
  CacheIdle /\ KeyIdle /\ ProxyInit /\ QueueIdle /\ CursorInit /\ MergeIdle /\ MoreIdle
MoviesAnswers == MoviesAnswered /\ UNCHANGED notMoviesVars
MoviesSpecNext == MoviesRequests \/ MoviesAnswers
MoviesSpec == MoviesSpecInit /\ [][MoviesSpecNext]_vars

\* cacheOnly as the handler reads it from the last request
CacheOnlySet ==
  /\ moviesStatus # 0
  /\ parseBooleanQuery(Coalesce(moviesQuery.cacheOnly,
                                Coalesce(moviesQuery.cache, moviesQuery.cache_only)))

\* C32: with cacheOnly set the handler makes no upstream call whatever the
\* other flags of the query are: its one call is ensureCatalog with
\* forceRefresh false and cacheOnly true, and fetchNewReleases is not called.
C32_CacheOnlyNoUpstream ==
  CacheOnlySet
    => /\ moviesUpstream = 0
       /\ Len(moviesCalls) = 1
       /\ moviesCalls[1] = [name |-> "ensureCatalog", forceRefresh |-> FALSE,
                            cacheOnly |-> TRUE]
C32_Witness ==
  /\ CacheOnlySet
  /\ moviesQuery.cacheOnly = NotGiven
  /\ moviesQuery.refresh = "1"
  /\ moviesQuery.includeFresh = "1"
  /\ moviesQuery.scope = "new"
  /\ moviesQuery.q = "x"
  /\ moviesStatus = 200
(***************************************************************************)
(* The auth callback under sign-ins and sign-outs that come while earlier  *)
(* invocations are still in progress.                                      *)
(***************************************************************************)
AuthInvoked ==
  /\ \E user \in Users \cup {NoUser} : AuthCallbackInvoked(user)
  /\ UNCHANGED notAuthVars
AuthMoviesDone ==
  /\ \E i \in 1..Len(authCallbacks) : \E ok \in BOOLEAN : AuthMoviesSettles(i, ok)
  /\ UNCHANGED notAuthVars
AuthHiddenTabsDone ==
  /\ \E i \in 1..Len(authCallbacks) : \E ok \in BOOLEAN : AuthHiddenTabsSettles(i, ok)
  /\ UNCHANGED notAuthVars
AuthDecisionsDone ==
  /\ \E i \in 1..Len(authCallbacks) : \E ok \in BOOLEAN : AuthDecisionsSettles(i, ok)
  /\ UNCHANGED notAuthVars
AuthSpecInit ==
  /\ AuthInit /\ PrefetchInit /\ MoviesInit /\ StatsInit /\ LoadInit
  /\ CacheIdle /\ KeyIdle /\ ProxyInit /\ QueueIdle /\ CursorInit /\ MergeIdle
AuthSpecNext == AuthInvoked \/ AuthMoviesDone \/ AuthHiddenTabsDone \/ AuthDecisionsDone
AuthSpec == AuthSpecInit /\ [][AuthSpecNext]_vars

\* C33: an invocation of the auth callback with no user never calls
\* loadDecisions: it is never in an await of loadDecisions, has called it no
\* time, and no step of it is such a call.
C33_NoUserNoLoadDecisions ==
  /\ [](\A i \in 1..Len(authCallbacks) :
          authCallbacks[i].user = NoUser
            => /\ authCallbacks[i].loadDecisions = 0
               /\ authCallbacks[i].pc \in {"init", "refresh", "tabs"})
  /\ [][\A i \in 1..Len(authCallbacks) : \A ok \in BOOLEAN :
          (authCallbacks[i].user = NoUser /\ AuthHiddenTabsSettles(i, ok))
            => authCallbacks' = WithoutCallback(i)]_vars
C33_Witness ==
  /\ Len(authCallbacks) = 2
  /\ authCallbacks[1].user = "u1" /\ authCallbacks[1].loadDecisions = 2
  /\ authCallbacks[2].user = NoUser /\ authCallbacks[2].pc = "tabs"
  /\ lastAuthMoviesUserId = NoUser
  /\ tabsVisible
(***************************************************************************)
(* The stats under changes of the signature, responses in any order and    *)
(* auth changes.                                                           *)
(***************************************************************************)
StatsUpdates ==
  /\ \E stamp \in CatalogStamps : \E ids \in SUBSET ClassifiableIds :
       UpdateMovieStats(stamp, ids)
  /\ UNCHANGED notStatsVars
StatsResponds ==
  /\ \E id \in StatsRequestIds : \E ok \in BOOLEAN : StatsResponse(id, ok)
  /\ UNCHANGED notStatsVars
StatsAuthChanges == StatsAuthChange /\ UNCHANGED notStatsVars
StatsSpecInit ==
  /\ StatsInit /\ PrefetchInit /\ MoviesInit /\ AuthIdle /\ LoadInit
  /\ CacheIdle /\ KeyIdle /\ ProxyInit /\ QueueIdle /\ CursorInit /\ MergeIdle
StatsSpecNext == StatsUpdates \/ StatsResponds \/ StatsAuthChanges
StatsSpec == StatsSpecInit /\ [][StatsSpecNext]_vars

\* C39: serverMovieStats reflects the most recently requested signature: once
\* the stats of the signature requested last are held, the response of a
\* request for an older signature does not replace them.
C39_NewestStatsKept ==
  [][\A id \in StatsRequestIds : \A ok \in BOOLEAN :
       (/\ serverMovieStats # NoStats
        /\ serverMovieStats = statsRequested
        /\ StatsResponse(id, ok)
        /\ statsRequests[id] # statsRequested)
         => serverMovieStats' = serverMovieStats]_vars
(***************************************************************************)
(* Loads of the preferences under sign-ins and sign-outs: the document of  *)
(* the user holds a stored cursor, the local store none.                   *)
(***************************************************************************)
LoadAuthChanges ==
  /\ \E user \in Users \cup {NoUser} : AuthChange(user)
  /\ UNCHANGED notLoadVars
LoadAuthResolves ==
  /\ \E id \in LoadIds : LoadAuthKnown(id)
  /\ UNCHANGED notLoadVars
LoadGetDone ==
  /\ \E id \in LoadIds : \E ok \in BOOLEAN : LoadGetSettles(id, ok)
  /\ UNCHANGED notLoadVars
LoadSpecInit ==
  /\ LoadInit /\ StatsInit /\ PrefetchInit /\ MoviesInit /\ AuthIdle
  /\ CacheIdle /\ KeyIdle /\ ProxyInit /\ QueueIdle /\ MergeIdle
  /\ feedFilterState = DEFAULT_FEED_FILTER_STATE
  /\ remoteDiscoverState \in StoredStates(DEFAULT_FEED_FILTER_STATE) \ {<<>>}
  /\ localDiscoverState = <<>>
  /\ tmdbDiscoverHistory = <<>>
  /\ tmdbDiscoverStateDirty = FALSE
  /\ tmdbDiscoverPersistTimer = FALSE
  /\ runs = [id \in RunIds |-> NoRun]
  /\ discovered = NoResult
  /\ activeUserId = NoUser
  /\ prefsLoadedFor = NoUser
  /\ discoverPersists = <<>>
LoadSpecNext == LoadAuthChanges \/ LoadAuthResolves \/ LoadGetDone
LoadSpec == LoadSpecInit /\ [][LoadSpecNext]_vars

\* C38: once the load for the most recent user has completed, a load of the
\* preferences that was started for an earlier user and completes later
\* overwrites nothing: the preferences, the cursor history, prefsLoadedFor and
\* activeUserId stay as they are.
C38_StaleLoadDiscarded ==
  [][\A id \in LoadIds : \A ok \in BOOLEAN :
       (/\ prefsLoadedFor = PrefsKey(currentUser)
        /\ prefLoads[id].pc = "get"
        /\ prefLoads[id].user # currentUser
        /\ LoadGetSettles(id, ok))
         => UNCHANGED <<currentPrefs, tmdbDiscoverHistory, prefsLoadedFor,
                        activeUserId>>]_vars
(***************************************************************************)
(* The persistence of the cursor for a signed-in user whose timers fire    *)
(* and whose store calls settle, and succeed if tried again and again.     *)
(***************************************************************************)
PersistSucceeds ==
  /\ PersistSettles(TRUE)
  /\ UNCHANGED <<cacheVars, keyVars, proxyVars, queueVars, mergeVars, moreVars>>
PersistFails ==
  /\ PersistSettles(FALSE)
  /\ UNCHANGED <<cacheVars, keyVars, proxyVars, queueVars, mergeVars, moreVars>>
\* the state after the preferences of a user with an empty document are loaded
PersistLiveInit ==
  /\ \E user \in Users : activeUserId = user /\ prefsLoadedFor = user
  /\ tmdbDiscoverHistory = <<>>
  /\ tmdbDiscoverStateDirty = FALSE
  /\ tmdbDiscoverPersistTimer = FALSE
  /\ feedFilterState = DEFAULT_FEED_FILTER_STATE
  /\ runs = [id \in RunIds |-> NoRun]
  /\ discovered = NoResult
  /\ localDiscoverState = <<>>
  /\ remoteDiscoverState = <<>>
  /\ discoverPersists = <<>>
  /\ CacheIdle /\ KeyIdle /\ ProxyInit /\ QueueIdle /\ MergeIdle /\ MoreIdle
PersistLiveNext ==
  \/ HistoryStartRun \/ HistoryPageArrives \/ HistorySetFeedFilter \/ HistoryTimer
  \/ PersistSucceeds \/ PersistFails
PersistLiveSpec ==
  /\ PersistLiveInit /\ [][PersistLiveNext]_vars
  /\ WF_vars(HistoryTimer)
  /\ WF_vars(PersistSucceeds \/ PersistFails)
  /\ SF_vars(PersistSucceeds)

\* the document of the user holds the cursor history as it is
DiscoverStateSaved ==
  remoteDiscoverState = getSerializableTmdbDiscoverState(tmdbDiscoverHistory)

\* C34: every change of the cursor history is eventually in the stored
\* state: whenever the history differs from what the store holds, the store
\* later holds the history, also when the change came while a store call was
\* in flight.
C34_EventuallyPersisted == (~DiscoverStateSaved) ~> DiscoverStateSaved

====
